---- MODULE Spec2Model ----
(***************************************************************************)
(* A model of HovsepPapoyan/ProducerConsumer.                              *)
(*                                                                         *)
(*   - ThreadsafeSTLAdapter (src/ThreadsafeSTLAdapter.h, namespace         *)
(*     concurrency; the namespace mt copy in src/unnamed/part_002 has the  *)
(*     same bodies): an STL adapter of shared_ptr handles behind a mutex   *)
(*     and a condition variable.                                           *)
(*   - ProducerConsumerBase / Producer / Consumer in their two variants:   *)
(*     "cv" (namespace concurrency, condition-variable work loops) and     *)
(*     "mt" (namespace mt, busy-yield work loops, the one main.cpp uses).  *)
(*                                                                         *)
(* Every thread is a record [kind, role, n]; its position inside an        *)
(* adapter call is call[t], its position in its own code is pc[t].         *)
(***************************************************************************)
EXTENDS Integers, Sequences, FiniteSets, TLC

\* ------------------------------------------------------------------ bounds
NumUsers == 2
MaxPush == 2
MaxSeed == 3
MaxCmds == 3
MaxBatches == 1

\* ------------------------------------------------------- names and values
Values == {1, 3, 5}

Roles == {"producer", "consumer"}

\* m_commandQueue of a role; the Producer's m_vectorItemsQueue is "buffer", the
\* adapter the roles share (m_sharedContainer) is "shared"; A and B are adapters
\* used directly.
m_commandQueue(r) == IF r = "producer" THEN "producerCommands" ELSE "consumerCommands"

Adapters == {"A", "B", "buffer", "shared"} \cup {m_commandQueue(r) : r \in Roles}

Kinds == {"queue", "stack", "priority_queue"}

Thr(k, r, n) == [kind |-> k, role |-> r, n |-> n]

Users == {Thr("user", "none", i) : i \in 1..NumUsers}

\* The thread that owns the roles (main), a role's control thread (m_mainThread)
\* and the worker threads it makes, one after the other (m_workerThread).
Client == Thr("client", "none", 1)

Main(r) == Thr("main", r, 1)

Worker(r, n) == Thr("worker", r, n)

Workers(r) == {Worker(r, n) : n \in 1..MaxCmds}

Threads ==
    Users \cup {Client} \cup {Main(r) : r \in Roles} \cup UNION {Workers(r) : r \in Roles}

\* A shared_ptr<Elem>: the payload lives in store[o][i].
Handle(o, i) == [o |-> o, i |-> i]

NoHandle == Handle("null", 0)

VARIABLES
    kind,        \* kind[a]: which STL adapter m_adapter[a] is
    comparator,  \* the priority_queue's comparator: "less" or "greater"
    m_adapter,   \* m_adapter[a]: the underlying container, a sequence of handles
    store,       \* store[a][i]: the payload of Handle(a, i)
    m_mutex,     \* m_mutex[a]: the set of threads that own the mutex
    m_condVar,   \* m_condVar[a]: the threads blocked in m_condVar.wait
    call,        \* call[t]: the adapter call thread t is in
    value,       \* value[t]: the caller's Elem variable (the by-reference result)
    ret,         \* ret[t]: what the thread's last adapter call returned
    menu,        \* menu[t]: the calls user thread t chooses from in this run
    plain,       \* plain[a]: the caller's plain STL adapter the factory made a from
    popped,      \* popped[t]: how many of thread t's pops have returned an element
    variant,     \* "cv": namespace concurrency, "mt": namespace mt
    roles,       \* the roles that were constructed
    m_workerThreadEnabled,    \* per role
    m_isWorkerThreadRunning,  \* per role ("cv" only)
    m_workerThreadMutex,      \* per role: the set of threads that own it
    m_workerThreadCondVar,    \* per role: the threads blocked in its wait ("cv" only)
    m_workerThread,           \* per role: 0 (null) or n, for Worker(r, n)
    pc,          \* pc[t]: where thread t is in its own code
    executed,    \* executed[r]: the commands mainThreadWork has taken up, in order
    delivered,   \* the items m_callable was called with, in order
    todo         \* what the client is still going to do, when it follows a script

adapterVars == <<kind, comparator, m_adapter, store, m_mutex, m_condVar>>

threadVars == <<call, value, ret>>

\* What belongs to the callers of the adapters; no adapter call touches it.
roleVars ==
    <<variant, roles, m_workerThreadEnabled, m_isWorkerThreadRunning, m_workerThreadMutex,
      m_workerThreadCondVar, m_workerThread, pc, executed, delivered, todo>>

callerVars == <<menu, plain, popped, roleVars>>

vars == <<kind, comparator, m_adapter, store, m_mutex, m_condVar, call, value, ret, callerVars>>

\* --------------------------------------------------- the STL adapters
\* CustomComparator::operator(): the caller's comparator on the payloads.
CustomComparator(s, cmp, x, y) ==
    IF cmp = "less" THEN s[x.o][x.i] < s[y.o][y.i] ELSE s[x.o][x.i] > s[y.o][y.i]

\* std::push_heap's sift-up (0-based hole, as in the library); c is 1-based.
RECURSIVE PushHeapLoop(_, _, _, _, _)
PushHeapLoop(s, cmp, c, hole, x) ==
    LET parent == (hole - 1) \div 2 IN
    IF hole > 0 /\ CustomComparator(s, cmp, c[parent + 1], x)
    THEN PushHeapLoop(s, cmp, [c EXCEPT ![hole + 1] = c[parent + 1]], parent, x)
    ELSE [c EXCEPT ![hole + 1] = x]

\* std::__adjust_heap's sift-down over the first len elements.
RECURSIVE AdjustHeapLoop(_, _, _, _, _, _)
AdjustHeapLoop(s, cmp, c, hole, len, x) ==
    IF hole < (len - 1) \div 2
    THEN LET right == 2 * (hole + 1)
             child == IF CustomComparator(s, cmp, c[right + 1], c[right]) THEN right - 1 ELSE right
         IN AdjustHeapLoop(s, cmp, [c EXCEPT ![hole + 1] = c[child + 1]], child, len, x)
    ELSE IF len % 2 = 0 /\ hole = (len - 2) \div 2
    THEN LET child == 2 * (hole + 1) - 1
         IN PushHeapLoop(s, cmp, [c EXCEPT ![hole + 1] = c[child + 1]], child, x)
    ELSE PushHeapLoop(s, cmp, c, hole, x)

\* std::priority_queue::push: c.push_back(x); std::push_heap(...).
HeapPush(s, cmp, c, x) == PushHeapLoop(s, cmp, Append(c, x), Len(c), x)

\* std::priority_queue::pop: std::pop_heap(...); c.pop_back().
HeapPop(s, cmp, c) ==
    IF Len(c) = 1 THEN <<>>
    ELSE LET last == c[Len(c)]
             moved == [c EXCEPT ![Len(c)] = c[1]]
         IN SubSeq(AdjustHeapLoop(s, cmp, moved, 0, Len(c) - 1, last), 1, Len(c) - 1)

\* Adapter::push of the wrapped STL adapter.
ContPush(k, s, cmp, c, x) ==
    IF k = "priority_queue" THEN HeapPush(s, cmp, c, x) ELSE Append(c, x)

ContPopBack(k, s, cmp, c) == SubSeq(c, 1, Len(c) - 1)

\* Adapter::pop of the wrapped STL adapter (on a non-empty one).
ContPop(k, s, cmp, c) ==
    CASE k = "queue" -> Tail(c)
      [] k = "stack" -> SubSeq(c, 1, Len(c) - 1)
      [] OTHER -> HeapPop(s, cmp, c)

\* detectTopMethod: std::stack and std::priority_queue have top(), std::queue has not.
detectTopMethod(k) == k \in {"stack", "priority_queue"}

getCurrentFront(k, c) == Head(c)

\* getCurrent: adapter.top() or adapter.front().
getCurrent(k, c) ==
    IF detectTopMethod(k)
    THEN (IF k = "stack" THEN c[Len(c)] ELSE c[1])
    ELSE Head(c)

\* The caller's plain STL adapter after pushing vals in this order; element i is
\* named Handle("plain", i), so that the adapter's code above applies as it is.
RECURSIVE PlainAdapter(_, _, _, _)
PlainAdapter(k, cmp, vals, n) ==
    IF n = 0 THEN <<>>
    ELSE ContPush(k, [o \in {"plain"} |-> vals], cmp, PlainAdapter(k, cmp, vals, n - 1),
                  Handle("plain", n))

\* getProtectedContainer: the adapter's underlying container c, front to back.
getProtectedContainer(k, cmp, vals) ==
    LET c == PlainAdapter(k, cmp, vals, Len(vals)) IN [j \in 1..Len(c) |-> vals[c[j].i]]

\* createThreadsafeSTLAdapterFrom(adapter, comparator...): std::transform over
\* the plain adapter's underlying container with make_shared, back-inserted into
\* the underlying container of the new adapter as it is. The payloads made for
\* the new adapter a, and a's container of handles.
FactoryStore(k, p) == getProtectedContainer(k, p.comparator, p.pushed)

FactoryAdapterReversed(a, p) == [j \in 1..Len(p.pushed) |-> Handle(a, Len(p.pushed) + 1 - j)]

FactoryAdapter(a, p) == [j \in 1..Len(p.pushed) |-> Handle(a, j)]

\* ------------------------------------------------ ThreadsafeSTLAdapter
NoCall == [op |-> "none", a |-> "none", b |-> "none", first |-> "a", at |-> "idle",
           byRef |-> FALSE, arg |-> 0]

NewCall(op, a, b, byRef, arg) ==
    [op |-> op, a |-> a, b |-> b, first |-> "a", at |-> "lock", byRef |-> byRef, arg |-> arg]

\* The value a caller's Elem variable holds before a call writes to it.
Unset == 0

NoRet == [kind |-> "none", h |-> NoHandle]

PushOps == {"push", "pushAndNotify"}

PopOps == {"waitAndPop", "tryPop", "pop"}

PairOps == {"swap", "copyAssign", "moveAssign"}

\* The mutex a call blocks on first: std::scoped_lock's std::lock starts with its
\* first argument and, after a failed try_lock, restarts with the one that failed.
FirstMutex(c) == IF c.first = "a" THEN c.a ELSE c.b

SecondMutex(c) == IF c.first = "a" THEN c.b ELSE c.a

MutexFreeAlways(a) == TRUE

\* std::mutex::lock / try_lock succeed only on a mutex nobody owns.
MutexFree(a) == m_mutex[a] = {}

\* The mutexes thread t owns.
Held(t) == {a \in DOMAIN m_mutex : t \in m_mutex[a]}

Payload(h) == store[h.o][h.i]

\* No call is running: none was started, or the last one has returned.
Idle(t) == call[t].op = "none"

\* std::lock_guard / std::unique_lock / the blocking first lock of std::scoped_lock.
AdLock(t) ==
    /\ call[t].at = "lock"
    /\ MutexFree(FirstMutex(call[t]))
    /\ m_mutex' = [m_mutex EXCEPT ![FirstMutex(call[t])] = @ \cup {t}]
    /\ call' = [call EXCEPT ![t].at = IF call[t].op \in PairOps THEN "try" ELSE "locked"]
    /\ UNCHANGED <<kind, comparator, m_adapter, store, m_condVar, value, ret, callerVars>>

AdTryLockHolding(t) ==
    /\ call[t].at = "try"
    /\ MutexFree(SecondMutex(call[t]))
    /\ m_mutex' = [m_mutex EXCEPT ![SecondMutex(call[t])] = @ \cup {t}]
    /\ call' = [call EXCEPT ![t].at = "locked"]
    /\ UNCHANGED <<kind, comparator, m_adapter, store, m_condVar, value, ret, callerVars>>

\* std::scoped_lock on two mutexes: try_lock the other one; on failure unlock the
\* one held and start again, blocking on the one that failed.
AdTryLock(t) ==
    /\ call[t].at = "try"
    /\ IF MutexFree(SecondMutex(call[t]))
       THEN /\ m_mutex' = [m_mutex EXCEPT ![SecondMutex(call[t])] = @ \cup {t}]
            /\ call' = [call EXCEPT ![t].at = "locked"]
       ELSE /\ m_mutex' = [m_mutex EXCEPT ![FirstMutex(call[t])] = @ \ {t}]
            /\ call' = [call EXCEPT ![t].at = "lock",
                                    ![t].first = IF call[t].first = "a" THEN "b" ELSE "a"]
    /\ UNCHANGED <<kind, comparator, m_adapter, store, m_condVar, value, ret, callerVars>>

PushBodyNotifying(t) ==
    LET c == call[t]
        h == Handle(c.a, Len(store[c.a]) + 1)
        s == [store EXCEPT ![c.a] = Append(@, c.arg)]
    IN /\ store' = s
       /\ m_adapter' = [m_adapter EXCEPT ![c.a] = ContPush(kind[c.a], s, comparator, @, h)]
       /\ m_mutex' = [m_mutex EXCEPT ![c.a] = @ \ {t}]
       /\ call' = [call EXCEPT ![t].at = "notify", ![t].arg = 0]
       /\ ret' = [ret EXCEPT ![t] = [kind |-> "void", h |-> NoHandle]]
       /\ UNCHANGED <<kind, comparator, m_condVar, value, callerVars>>

PushBodySilent(t) ==
    LET c == call[t]
        h == Handle(c.a, Len(store[c.a]) + 1)
        s == [store EXCEPT ![c.a] = Append(@, c.arg)]
    IN /\ store' = s
       /\ m_adapter' = [m_adapter EXCEPT ![c.a] = ContPush(kind[c.a], s, comparator, @, h)]
       /\ m_mutex' = [m_mutex EXCEPT ![c.a] = @ \ {t}]
       /\ call' = [call EXCEPT ![t].at = "done", ![t].arg = 0]
       /\ ret' = [ret EXCEPT ![t] = [kind |-> "void", h |-> NoHandle]]
       /\ UNCHANGED <<kind, comparator, m_condVar, value, callerVars>>

\* push: make_shared, then m_adapter.push under the lock_guard, which is released
\* at the end of the block; pushAndNotify goes on to notify_one.
PushBody(t) ==
    LET c == call[t]
        h == Handle(c.a, Len(store[c.a]) + 1)
        s == [store EXCEPT ![c.a] = Append(@, c.arg)]
    IN /\ store' = s
       /\ m_adapter' = [m_adapter EXCEPT ![c.a] = ContPush(kind[c.a], s, comparator, @, h)]
       /\ m_mutex' = [m_mutex EXCEPT ![c.a] = @ \ {t}]
       /\ call' = [call EXCEPT ![t].at = IF c.op = "pushAndNotify" THEN "notify" ELSE "done",
                               ![t].arg = 0]
       /\ ret' = [ret EXCEPT ![t] = [kind |-> "void", h |-> NoHandle]]
       /\ UNCHANGED <<kind, comparator, m_condVar, value, callerVars>>

\* The common tail of waitAndPop / tryPop / pop on a non-empty adapter: take
\* getCurrent (by reference: move its payload into value; by pointer: move the
\* handle out), m_adapter.pop(), unlock, return.
TakeCurrent(t) ==
    LET c == call[t]
        cur == getCurrent(kind[c.a], m_adapter[c.a])
    IN /\ m_adapter' = [m_adapter EXCEPT ![c.a] = ContPop(kind[c.a], store, comparator, @)]
       /\ m_mutex' = [m_mutex EXCEPT ![c.a] = @ \ {t}]
       /\ call' = [call EXCEPT ![t].at = "done"]
       /\ IF c.byRef
          THEN /\ value' = [value EXCEPT ![t] = Payload(cur)]
               /\ ret' = [ret EXCEPT ![t] = [kind |-> IF c.op = "tryPop" THEN "true" ELSE "void",
                                             h |-> NoHandle]]
          ELSE /\ value' = value
               /\ ret' = [ret EXCEPT ![t] = [kind |-> "ptr", h |-> cur]]
       /\ UNCHANGED <<kind, comparator, store, m_condVar, callerVars>>

EmptyReturnClearing(t) ==
    LET c == call[t]
    IN /\ m_mutex' = [m_mutex EXCEPT ![c.a] = @ \ {t}]
       /\ call' = [call EXCEPT ![t].at = "done"]
       /\ ret' = [ret EXCEPT ![t] = [kind |-> IF c.op = "pop" THEN "EmptyAdapter"
                                              ELSE IF c.byRef THEN "false" ELSE "null",
                                     h |-> NoHandle]]
       /\ value' = [value EXCEPT ![t] = Unset]
       /\ UNCHANGED <<kind, comparator, m_adapter, store, m_condVar, callerVars>>

\* tryPop / pop on an empty adapter: false or a null pointer / throw EmptyAdapter.
EmptyReturn(t) ==
    LET c == call[t]
    IN /\ m_mutex' = [m_mutex EXCEPT ![c.a] = @ \ {t}]
       /\ call' = [call EXCEPT ![t].at = "done"]
       /\ ret' = [ret EXCEPT ![t] = [kind |-> IF c.op = "pop" THEN "EmptyAdapter"
                                              ELSE IF c.byRef THEN "false" ELSE "null",
                                     h |-> NoHandle]]
       /\ UNCHANGED <<kind, comparator, m_adapter, store, m_condVar, value, callerVars>>

\* m_condVar.wait(lock, pred) with pred false: unlock and block, atomically.
WaitBlock(t) ==
    LET c == call[t]
    IN /\ m_mutex' = [m_mutex EXCEPT ![c.a] = @ \ {t}]
       /\ m_condVar' = [m_condVar EXCEPT ![c.a] = @ \cup {t}]
       /\ call' = [call EXCEPT ![t].at = "waiting"]
       /\ UNCHANGED <<kind, comparator, m_adapter, store, value, ret, callerVars>>

\* swap / operator=(const&) / operator=(&&) under the scoped_lock on both mutexes.
PairBody(t) ==
    LET c == call[t]
    IN /\ m_adapter' = CASE c.op = "swap" ->
                              [m_adapter EXCEPT ![c.a] = m_adapter[c.b], ![c.b] = m_adapter[c.a]]
                         [] c.op = "copyAssign" ->
                              [m_adapter EXCEPT ![c.a] = m_adapter[c.b]]
                         [] OTHER ->
                              [m_adapter EXCEPT ![c.a] = m_adapter[c.b], ![c.b] = <<>>]
       /\ m_mutex' = [m_mutex EXCEPT ![c.a] = @ \ {t}, ![c.b] = @ \ {t}]
       /\ call' = [call EXCEPT ![t].at = "done"]
       /\ ret' = [ret EXCEPT ![t] = [kind |-> "void", h |-> NoHandle]]
       /\ UNCHANGED <<kind, comparator, store, m_condVar, value, callerVars>>

\* What a call does once it holds its lock.
AdBody(t) ==
    /\ call[t].at = "locked"
    /\ CASE call[t].op \in PushOps -> PushBody(t)
         [] call[t].op \in PairOps -> PairBody(t)
         [] m_adapter[call[t].a] # <<>> -> TakeCurrent(t)
         [] call[t].op = "waitAndPop" -> WaitBlock(t)
         [] OTHER -> EmptyReturn(t)

AdNotifyNobody(t) ==
    /\ call[t].at = "notify"
    /\ call' = [call EXCEPT ![t].at = "done"]
    /\ UNCHANGED <<kind, comparator, m_adapter, store, m_mutex, m_condVar, value, ret, callerVars>>

\* m_condVar.notify_one(): one of the blocked threads, if there is one, is woken;
\* it has to take the mutex again before it looks at the container.
AdNotify(t) ==
    /\ call[t].at = "notify"
    /\ IF m_condVar[call[t].a] = {}
       THEN /\ call' = [call EXCEPT ![t].at = "done"]
            /\ m_condVar' = m_condVar
       ELSE \E w \in m_condVar[call[t].a] :
               /\ m_condVar' = [m_condVar EXCEPT ![call[t].a] = @ \ {w}]
               /\ call' = [call EXCEPT ![t].at = "done", ![w].at = "lock"]
    /\ UNCHANGED <<kind, comparator, m_adapter, store, m_mutex, value, ret, callerVars>>

\* std::condition_variable::wait may return without a notification.
AdSpuriousWake(t) ==
    /\ call[t].at = "waiting"
    /\ t \in m_condVar[call[t].a]
    /\ m_condVar' = [m_condVar EXCEPT ![call[t].a] = @ \ {t}]
    /\ call' = [call EXCEPT ![t].at = "lock"]
    /\ UNCHANGED <<kind, comparator, m_adapter, store, m_mutex, value, ret, callerVars>>

\* One step of thread t inside an adapter call.
AdStep(t) == AdLock(t) \/ AdTryLock(t) \/ AdBody(t) \/ AdNotify(t)

\* ------------------------------------- threads using adapters A and B
\* The values the threads push.
PushValues == {1, 5}

Entry(op, a, b, byRef, args) == [op |-> op, a |-> a, b |-> b, byRef |-> byRef, args |-> args]

\* The calls a thread of one run chooses from. MenuOne: every push and pop on
\* one adapter (tryPop in its Elem& form, waitAndPop and pop in their shared_ptr
\* form). MenuAll: both pushes and both forms of every pop, everything the single
\* caller of the seeded adapter may do. MenuTwo: swap and the two assignments
\* between two adapters, with pops from A.
MenuOne ==
    {Entry(op, "A", "none", FALSE, PushValues) : op \in PushOps}
    \cup {Entry(op, "A", "none", op = "tryPop", {0}) : op \in PopOps}

MenuAll ==
    {Entry(op, "A", "none", FALSE, {3}) : op \in PushOps}
    \cup {Entry(op, "A", "none", r, {0}) : op \in PopOps, r \in BOOLEAN}

MenuTwo ==
    {Entry(op, "A", "B", FALSE, {0}) : op \in PairOps}
    \cup {Entry(op, "B", "A", FALSE, {0}) : op \in PairOps}
    \cup {Entry("swap", "A", "A", FALSE, {0}),
          Entry("waitAndPop", "A", "none", FALSE, {0}),
          Entry("tryPop", "A", "none", TRUE, {0})}

\* A caller's plain STL adapter: what was pushed into it, in this order, and the
\* comparator it was built with (a priority_queue's third template argument;
\* of a function type its value is the caller's choice, per object).
Plain(vals, cmp) == [pushed |-> vals, comparator |-> cmp]

NoPlain == Plain(<<>>, "less")

\* What adapter B is made from in a run with MenuTwo.
SeedTwo == <<5>>

\* Pushes under way (their payload is not in store yet) and pushes done.
PushesInFlight ==
    Cardinality({t \in Users : call[t].op \in PushOps /\ call[t].at \in {"lock", "locked"}})

Pushed ==
    (Len(store["A"]) - Len(plain["A"].pushed)) + (Len(store["B"]) - Len(plain["B"].pushed))

\* A thread calls push(v) or pushAndNotify(v).
UserPush(t) ==
    /\ Idle(t)
    /\ \E m \in menu[t] : \E v \in m.args :
          /\ m.op \in PushOps
          /\ Pushed + PushesInFlight < MaxPush
          /\ call' = [call EXCEPT ![t] = NewCall(m.op, m.a, m.b, m.byRef, v)]
    /\ UNCHANGED <<adapterVars, value, ret, callerVars>>

\* A thread calls waitAndPop, tryPop or pop, in the Elem& or the shared_ptr form.
UserPop(t) ==
    /\ Idle(t)
    /\ \E m \in menu[t] :
          /\ m.op \in PopOps
          /\ call' = [call EXCEPT ![t] = NewCall(m.op, m.a, m.b, m.byRef, 0)]
    /\ UNCHANGED <<adapterVars, value, ret, callerVars>>

\* A thread calls swap(a, b), a = b or a = std::move(b); on one and the same
\* object each of them returns at once (&lhs != &rhs, this != &rhs).
UserPair(t) ==
    /\ Idle(t)
    /\ \E m \in menu[t] :
          /\ m.op \in PairOps
          /\ call' = [call EXCEPT ![t] = [NewCall(m.op, m.a, m.b, FALSE, 0) EXCEPT
                                             !.at = IF m.a = m.b THEN "done" ELSE "lock"]]
    /\ UNCHANGED <<adapterVars, value, ret, callerVars>>

\* The call has returned; the caller drops what it got (its Elem variable and
\* the returned shared_ptr go out of scope).
UserReturn(t) ==
    /\ call[t].at = "done"
    /\ call' = [call EXCEPT ![t] = NoCall]
    /\ value' = [value EXCEPT ![t] = Unset]
    /\ ret' = [ret EXCEPT ![t] = NoRet]
    /\ UNCHANGED <<adapterVars, callerVars>>

\* The call has returned; the caller counts it if it was a pop that gave it an
\* element, and keeps its Elem variable for its next call.
UserReuse(t) ==
    /\ call[t].at = "done"
    /\ call' = [call EXCEPT ![t] = NoCall]
    /\ ret' = [ret EXCEPT ![t] = NoRet]
    /\ popped' = [popped EXCEPT ![t] =
                     IF call[t].op \in PopOps /\ ret[t].kind \in {"ptr", "true", "void"}
                     THEN @ + 1 ELSE @]
    /\ UNCHANGED <<adapterVars, value, menu, plain, roleVars>>

\* The adapters as createThreadsafeSTLAdapterFrom returns them, nobody inside.
InitAdapters ==
    /\ store = [a \in Adapters |-> FactoryStore(kind[a], plain[a])]
    /\ m_adapter = [a \in Adapters |-> FactoryAdapter(a, plain[a])]
    /\ m_mutex = [a \in Adapters |-> {}]
    /\ m_condVar = [a \in Adapters |-> {}]
    /\ call = [t \in Threads |-> NoCall]
    /\ value = [t \in Threads |-> Unset]
    /\ ret = [t \in Threads |-> NoRet]
    /\ popped = [t \in Threads |-> 0]

\* The objects of ProducerConsumerBase before any of them is constructed.
InitRoles ==
    /\ m_workerThreadEnabled = [r \in Roles |-> FALSE]
    /\ m_isWorkerThreadRunning = [r \in Roles |-> FALSE]
    /\ m_workerThreadMutex = [r \in Roles |-> {}]
    /\ m_workerThreadCondVar = [r \in Roles |-> {}]
    /\ m_workerThread = [r \in Roles |-> 0]
    /\ executed = [r \in Roles |-> <<>>]
    /\ delivered = <<>>

\* No Producer and no Consumer: the adapters are used directly.
NoRoles ==
    /\ InitRoles
    /\ variant = "cv" /\ roles = {}
    /\ pc = [t \in Threads |-> "unborn"]
    /\ todo = <<>>

\* Threads sharing adapter A (MenuOne), or two adapters of which B was made from
\* a plain adapter holding SeedTwo (MenuTwo).
InitAdapter ==
    /\ \E m \in {MenuOne, MenuTwo} :
          /\ menu = [t \in Threads |-> IF t \in Users THEN m ELSE {}]
          /\ \E k \in Kinds : kind = [a \in Adapters |-> k]
          /\ comparator \in (IF kind["A"] = "priority_queue" THEN {"less", "greater"} ELSE {"less"})
          /\ plain = [a \in Adapters |-> IF a = "B" /\ m = MenuTwo
                                         THEN Plain(SeedTwo, comparator) ELSE NoPlain]
    /\ InitAdapters /\ NoRoles

NextAdapter ==
    \E t \in Users : \/ UserPush(t) \/ UserPop(t) \/ UserPair(t) \/ UserReturn(t)
                     \/ AdLock(t) \/ AdTryLock(t) \/ AdBody(t) \/ AdNotify(t)
                     \/ AdSpuriousWake(t)

SpecAdapter == InitAdapter /\ [][NextAdapter]_vars

\* ------------------------------------------------- mutual exclusion
\* The mutexes the call of thread t works under.
CallMutexes(t) == IF call[t].op \in PairOps THEN {call[t].a, call[t].b} ELSE {call[t].a}

\* A thread is at the statements of a call that look at or change m_adapter.
InContainer(t) == call[t].at = "locked"

C5_Owners ==
    /\ \A a \in DOMAIN m_mutex : Cardinality(m_mutex[a]) <= 1
    /\ \A t \in DOMAIN call : InContainer(t) => CallMutexes(t) \subseteq Held(t)

C5_Change ==
    \A a \in DOMAIN m_adapter :
        m_adapter'[a] # m_adapter[a] =>
            \E t \in DOMAIN call : /\ m_mutex[a] = {t}
                                   /\ InContainer(t)
                                   /\ a \in CallMutexes(t)
                                   /\ call'[t].at # "locked"

\* C5: at most one thread owns an adapter's mutex; a thread that is at the
\* container statements of push, pushAndNotify, waitAndPop, tryPop, pop, swap or
\* an assignment owns the mutex of every adapter the call touches; and every step
\* that changes an adapter's container is taken by the one owner of its mutex.
C5_MutualExclusion == [](C5_Owners) /\ [][C5_Change]_vars

\* Two threads are in a swap or an assignment of A and B: one inside, owning both
\* mutexes, the other kept out.
C5_Witness ==
    \E t, u \in Users :
        /\ t # u
        /\ call[t].op \in PairOps /\ InContainer(t) /\ Held(t) = {"A", "B"}
        /\ call[u].op \in PairOps /\ call[u].at = "lock"
        /\ m_adapter["B"] # <<>>

\* ------------------------------------------------------ the pop family
SuccessKinds == {"ptr", "true", "void"}

\* The element the discipline's accessor names: front() of a queue, top() of a
\* stack (the back of its container) or of a priority_queue (the front of its heap).
Designated(a) ==
    CASE kind[a] = "queue" -> m_adapter[a][1]
      [] kind[a] = "stack" -> m_adapter[a][Len(m_adapter[a])]
      [] OTHER -> m_adapter[a][1]

Elements(c) == {c[i] : i \in 1..Len(c)}

\* Thread t's pop call leaves the container statements in this step.
PopStep(t) == call[t].op \in PopOps /\ InContainer(t) /\ call'[t].at # "locked"

C6_Pop(t) ==
    LET a == call[t].a
        d == Designated(a)
    IN IF m_adapter[a] = <<>>
       THEN /\ m_adapter'[a] = <<>>
            /\ call'[t].at = "done" => ret'[t].kind \notin SuccessKinds
       ELSE /\ call'[t].at = "done" /\ ret'[t].kind \in SuccessKinds
            /\ Len(m_adapter'[a]) = Len(m_adapter[a]) - 1
            /\ Elements(m_adapter'[a]) = Elements(m_adapter[a]) \ {d}
            /\ IF call[t].byRef THEN value'[t] = store[d.o][d.i] ELSE ret'[t].h = d

\* C6: a tryPop, pop or waitAndPop that finds the container non-empty removes
\* exactly the element the accessor names at that moment and returns it (its
\* payload through Elem&, its handle as shared_ptr); one that finds it empty
\* removes nothing and returns no element.
C6_PopsDesignated == [][\A t \in DOMAIN call : PopStep(t) => C6_Pop(t)]_vars

\* A waitAndPop has returned an element while another thread's waitAndPop on the
\* same adapter, woken before, is still on its way back to the container.
C6_Witness ==
    \E t, u \in Users :
        /\ t # u
        /\ call[t].op = "waitAndPop" /\ call[t].at = "done" /\ ret[t].kind = "ptr"
        /\ call[u].op = "waitAndPop" /\ call[u].at = "lock" /\ call[u].a = call[t].a
        /\ kind["A"] = "stack"

\* ------------------------------------- one thread, one seeded adapter
Caller == Thr("user", "none", 1)

RECURSIVE SeqsUpTo(_, _)
SeqsUpTo(S, n) ==
    IF n = 0 THEN {<<>>}
    ELSE LET shorter == SeqsUpTo(S, n - 1)
         IN shorter \cup {Append(q, x) : q \in {r \in shorter : Len(r) = n - 1}, x \in S}

\* Adapter A is made from a plain adapter holding up to MaxSeed values; for a
\* priority_queue the plain adapter's comparator and the one handed to the
\* factory are two arguments of the caller.
InitSeq ==
    /\ menu = [t \in Threads |-> IF t = Caller THEN MenuAll ELSE {}]
    /\ \E k \in Kinds : kind = [a \in Adapters |-> k]
    /\ comparator \in (IF kind["A"] = "priority_queue" THEN {"less", "greater"} ELSE {"less"})
    /\ \E vals \in SeqsUpTo(Values, MaxSeed) :
       \E cmp \in (IF kind["A"] = "priority_queue" THEN {"less", "greater"} ELSE {"less"}) :
          plain = [a \in Adapters |-> IF a = "A" THEN Plain(vals, cmp) ELSE NoPlain]
    /\ InitAdapters /\ NoRoles

NextSeq ==
    \E t \in Users : \/ UserPush(t) \/ UserPop(t) \/ UserReuse(t)
                     \/ AdLock(t) \/ AdBody(t) \/ AdNotify(t) \/ AdSpuriousWake(t)

SpecSeq == InitSeq /\ [][NextSeq]_vars

\* What was inserted into A, in order: the plain adapter's values, then the pushes.
Inserted ==
    plain["A"].pushed \o SubSeq(store["A"], Len(plain["A"].pushed) + 1, Len(store["A"]))

\* What a successful pop hands to the caller in this step.
Returned(t) == IF call[t].byRef THEN value'[t] ELSE store[ret'[t].h.o][ret'[t].h.i]

\* C7: with a std::queue inside, the pop that follows k - 1 successful ones and
\* finds the adapter non-empty returns the k-th inserted payload.
C7_Fifo ==
    [][\A t \in DOMAIN call :
          (kind["A"] = "queue" /\ PopStep(t) /\ m_adapter[call[t].a] # <<>>)
              => /\ popped[t] < Len(Inserted)
                 /\ Returned(t) = Inserted[popped[t] + 1]]_vars

\* Made from a queue holding 5, 1, 3: three pops have returned elements, the last
\* of them 3 through Elem&, and a fourth call, a tryPop, has returned without one.
C7_Witness ==
    /\ kind["A"] = "queue"
    /\ plain["A"].pushed = <<5, 1, 3>> /\ Len(store["A"]) = 3
    /\ popped[Caller] = 3 /\ value[Caller] = 3
    /\ call[Caller].op = "tryPop" /\ call[Caller].at = "done"
    /\ ret[Caller].kind \in {"false", "null"}

\* The caller's comparator on payloads: x comes before y (x is the lesser one).
Before(cmp, x, y) == IF cmp = "less" THEN x < y ELSE x > y

C8_Pop(t) ==
    \A h \in Elements(m_adapter[call[t].a]) : ~Before(comparator, Returned(t), store[h.o][h.i])

\* C8: with a std::priority_queue inside, every successful pop returns an element
\* that none of the elements held at that moment comes after, in the order of the
\* comparator the caller handed to the factory.
C8_PopsGreatest ==
    [][\A t \in DOMAIN call :
          (kind["A"] = "priority_queue" /\ PopStep(t) /\ m_adapter[call[t].a] # <<>>)
              => C8_Pop(t)]_vars

C9_Empty(t) ==
    /\ call'[t].at = "done"
    /\ ret'[t].kind = (IF call[t].op = "pop" THEN "EmptyAdapter"
                       ELSE IF call[t].byRef THEN "false" ELSE "null")
    /\ ret'[t].h = NoHandle
    /\ m_adapter' = m_adapter /\ store' = store
    /\ value'[t] = value[t]
    /\ t \notin m_mutex'[call[t].a]

\* C9: a tryPop or pop that finds the adapter empty returns in that step: pop with
\* EmptyAdapter, tryPop with false or a null shared_ptr; the container, the
\* payloads and the caller's Elem variable are as before and the mutex is free of
\* the caller. No thread in tryPop or pop is ever blocked on the condition variable.
C9_EmptyPops ==
    /\ [](\A t \in DOMAIN call : call[t].op \in {"tryPop", "pop"} =>
              call[t].at # "waiting" /\ t \notin m_condVar[call[t].a])
    /\ [][\A t \in DOMAIN call :
              (call[t].op \in {"tryPop", "pop"} /\ PopStep(t) /\ m_adapter[call[t].a] = <<>>)
                  => C9_Empty(t)]_vars

\* pop(Elem&) on the emptied adapter has thrown EmptyAdapter; the caller's variable
\* still holds the 5 an earlier pop put there, and nobody owns the mutex.
C9_Witness ==
    /\ call[Caller].op = "pop" /\ call[Caller].byRef /\ call[Caller].at = "done"
    /\ ret[Caller].kind = "EmptyAdapter"
    /\ value[Caller] = 5
    /\ m_adapter["A"] = <<>> /\ m_mutex["A"] = {}

\* ------------------------------------ a waiter and a pusher, fairly run
Waiter == Thr("user", "none", 1)

Pusher == Thr("user", "none", 2)

MenuWait == {Entry("waitAndPop", "A", "none", r, {0}) : r \in BOOLEAN}

MenuNotify == {Entry("pushAndNotify", "A", "none", FALSE, PushValues)}

InitWake ==
    /\ menu = [t \in Threads |-> IF t = Waiter THEN MenuWait
                                 ELSE IF t = Pusher THEN MenuNotify ELSE {}]
    /\ \E k \in Kinds : kind = [a \in Adapters |-> k]
    /\ comparator \in (IF kind["A"] = "priority_queue" THEN {"less", "greater"} ELSE {"less"})
    /\ plain = [a \in Adapters |-> NoPlain]
    /\ InitAdapters /\ NoRoles

\* The pusher calls pushAndNotify once what it pushed before has been taken.
WakePush(t) == m_adapter["A"] = <<>> /\ UserPush(t)

NextWake ==
    \E t \in Users : \/ WakePush(t) \/ UserPop(t) \/ UserReturn(t)
                     \/ AdLock(t) \/ AdBody(t) \/ AdNotify(t) \/ AdSpuriousWake(t)

\* A thread that can go on inside its call (run the body, notify) does so in the
\* end, and a thread blocked in lock() on a mutex that is free again and again
\* gets it in the end; a spurious wakeup may never come.
SpecWake ==
    /\ InitWake /\ [][NextWake]_vars
    /\ \A t \in Users : WF_vars(AdBody(t) \/ AdNotify(t)) /\ SF_vars(AdLock(t))

\* The waiter's call has returned the payload v.
WaiterGot(v) ==
    /\ call[Waiter].op = "waitAndPop" /\ call[Waiter].at = "done"
    /\ IF call[Waiter].byRef THEN value[Waiter] = v
       ELSE ret[Waiter].kind = "ptr" /\ Payload(ret[Waiter].h) = v

\* The waiter is suspended in waitAndPop and the pusher enters pushAndNotify(v).
WaiterSuspended(v) ==
    /\ call[Waiter].at = "waiting" /\ Waiter \in m_condVar["A"]
    /\ call[Pusher].op = "pushAndNotify" /\ call[Pusher].at = "lock"
    /\ call[Pusher].arg = v

\* C10: whenever the waiter is suspended in waitAndPop on the empty adapter and
\* the pusher then enters pushAndNotify(v), the pusher's call returns and the
\* waiter's call returns v.
C10_WaiterReturns ==
    \A v \in PushValues :
        /\ WaiterSuspended(v) ~> WaiterGot(v)
        /\ WaiterSuspended(v) ~> (call[Pusher].at = "done")

\* The pusher's pushAndNotify(5) is over, nobody is left on the condition
\* variable, and the waiter's waitAndPop(Elem&) has returned 5.
C10_Witness ==
    /\ WaiterGot(5) /\ call[Waiter].byRef
    /\ call[Pusher].op = "pushAndNotify" /\ call[Pusher].at = "done"
    /\ m_condVar["A"] = {} /\ m_adapter["A"] = <<>>

\* --------------------------------- ProducerConsumerBase, both variants
Commands == {"EnableWorkerThread", "DisableWorkerThread", "ShutdownMainThread"}

\* The items of one Producer::push.
Batch == <<5, 1>>

\* What a role's worker takes its input from.
Source(r) == IF r = "producer" THEN "buffer" ELSE "shared"

\* The thread is not inside an adapter call.
Ready(t) == call[t].at \in {"idle", "done"}

harnessVars == <<menu, plain, popped>>

flagVars == <<m_workerThreadEnabled, m_isWorkerThreadRunning>>

workerSync == <<m_workerThreadMutex, m_workerThreadCondVar>>

\* The commands handed to the command queues so far.
Issued == Len(store[m_commandQueue("producer")]) + Len(store[m_commandQueue("consumer")])

\* The client's next operation: any one, while fewer than MaxCmds commands were
\* issued, or the one its script names.
AnyOp == [op |-> "any", r |-> "none"]

EndOp == [op |-> "end", r |-> "none"]

Op(op, r) == [op |-> op, r |-> r]

MayDo(op, r) ==
    /\ pc[Client] = "run" /\ Ready(Client) /\ r \in roles
    /\ IF Head(todo) = AnyOp THEN Issued < MaxCmds ELSE Head(todo) = Op(op, r)
    /\ todo' = IF Head(todo) = AnyOp THEN todo ELSE Tail(todo)

PostCommand(r, cmd) ==
    /\ call' = [call EXCEPT ![Client] = NewCall("pushAndNotify", m_commandQueue(r), "none", FALSE, cmd)]
    /\ UNCHANGED <<adapterVars, value, ret, harnessVars, variant, flagVars, workerSync,
                   m_workerThread, executed, delivered>>

\* enableWorkerThread(): m_commandQueue.pushAndNotify(Command::EnableWorkerThread).
enableWorkerThread(r) ==
    MayDo("enable", r) /\ PostCommand(r, "EnableWorkerThread") /\ UNCHANGED <<pc, roles>>

disableWorkerThreadSync(r) ==
    /\ MayDo("disable", r)
    /\ call' = [call EXCEPT ![Client] =
                   NewCall("pushAndNotify", m_commandQueue(r), "none", FALSE, "DisableWorkerThread")]
    /\ m_workerThreadEnabled' = [m_workerThreadEnabled EXCEPT ![r] = FALSE]
    /\ UNCHANGED <<adapterVars, value, ret, harnessVars, variant, m_isWorkerThreadRunning,
                   workerSync, m_workerThread, executed, delivered, pc, roles>>

\* disableWorkerThread(): m_commandQueue.pushAndNotify(Command::DisableWorkerThread).
disableWorkerThread(r) ==
    MayDo("disable", r) /\ PostCommand(r, "DisableWorkerThread") /\ UNCHANGED <<pc, roles>>

\* ~Producer / ~Consumer -> shutdownMainThread(): pushAndNotify(ShutdownMainThread) ...
shutdownMainThread(r) ==
    /\ MayDo("destroy", r) /\ PostCommand(r, "ShutdownMainThread")
    /\ pc' = [pc EXCEPT ![Client] = "join"]
    /\ UNCHANGED roles

\* ... then m_mainThread->join(); the role is gone when the destructor returns.
JoinMainThread(r) ==
    /\ pc[Client] = "join" /\ call[Client].at = "done" /\ call[Client].a = m_commandQueue(r)
    /\ pc[Main(r)] = "exited"
    /\ pc' = [pc EXCEPT ![Client] = "run", ![Main(r)] = "joined"]
    /\ roles' = roles \ {r}
    /\ UNCHANGED <<adapterVars, threadVars, harnessVars, variant, flagVars, workerSync,
                   m_workerThread, executed, delivered, todo>>

\* Producer::push(items): m_vectorItemsQueue.push(std::move(items)).
ProducerPush ==
    /\ MayDo("push", "producer") /\ Len(store["buffer"]) < MaxBatches
    /\ call' = [call EXCEPT ![Client] = NewCall("push", "buffer", "none", FALSE, Batch)]
    /\ UNCHANGED <<adapterVars, value, ret, harnessVars, variant, flagVars, workerSync,
                   m_workerThread, executed, delivered, pc, roles>>

\* mainThreadWork: Command currentCommand; m_commandQueue.waitAndPop(currentCommand).
MainWaitAndPop(r) ==
    /\ pc[Main(r)] = "loop"
    /\ call' = [call EXCEPT ![Main(r)] = NewCall("waitAndPop", m_commandQueue(r), "none", TRUE, 0)]
    /\ pc' = [pc EXCEPT ![Main(r)] = "command"]
    /\ UNCHANGED <<adapterVars, value, ret, harnessVars, variant, roles, flagVars, workerSync,
                   m_workerThread, executed, delivered, todo>>

\* mainThreadWork: the if / else if on currentCommand (value[Main(r)]).
MainDispatch(r) ==
    /\ pc[Main(r)] = "command" /\ call[Main(r)].at = "done"
    /\ executed' = [executed EXCEPT ![r] = Append(@, value[Main(r)])]
    /\ call' = [call EXCEPT ![Main(r)] = NoCall]
    /\ pc' = [pc EXCEPT ![Main(r)] =
                 IF value[Main(r)] = "EnableWorkerThread" THEN "enable" ELSE "disable"]
    /\ UNCHANGED <<adapterVars, value, ret, harnessVars, variant, roles, flagVars, workerSync,
                   m_workerThread, delivered, todo>>

AfterDisableLoop(r) == "loop"

\* Where mainThreadWork goes on after disableWorkerThreadIfEnabled /
\* interruptWorkerThread: round the loop, or break after ShutdownMainThread.
AfterDisable(r) == IF value[Main(r)] = "ShutdownMainThread" THEN "exited" ELSE "loop"

MayEnableUnlessRunning(r) == ~m_isWorkerThreadRunning[r]

MayEnableAlways(r) == TRUE

\* The condition under which EnableWorkerThread starts a worker.
MayEnable(r) ==
    IF variant = "cv"
    THEN ~m_workerThreadEnabled[r] /\ ~m_isWorkerThreadRunning[r]
    ELSE ~m_workerThreadEnabled[r]

\* concurrency::mainThreadWork, EnableWorkerThread: unique_lock; the test;
\* m_workerThreadEnabled = true; lock.unlock().
CvEnable(r) ==
    /\ variant = "cv" /\ pc[Main(r)] = "enable"
    /\ m_workerThreadMutex[r] = {}
    /\ IF MayEnable(r)
       THEN /\ m_workerThreadEnabled' = [m_workerThreadEnabled EXCEPT ![r] = TRUE]
            /\ pc' = [pc EXCEPT ![Main(r)] = "spawn"]
       ELSE /\ m_workerThreadEnabled' = m_workerThreadEnabled
            /\ pc' = [pc EXCEPT ![Main(r)] = "loop"]
    /\ UNCHANGED <<adapterVars, threadVars, harnessVars, variant, roles, m_isWorkerThreadRunning,
                   workerSync, m_workerThread, executed, delivered, todo>>

\* mt::mainThreadWork, EnableWorkerThread: if (!m_workerThreadEnabled), an atomic load.
MtEnable(r) ==
    /\ variant = "mt" /\ pc[Main(r)] = "enable"
    /\ pc' = [pc EXCEPT ![Main(r)] = IF MayEnable(r) THEN "enable_lock" ELSE "loop"]
    /\ UNCHANGED <<adapterVars, threadVars, harnessVars, variant, roles, flagVars, workerSync,
                   m_workerThread, executed, delivered, todo>>

\* mt::mainThreadWork: lock_guard (held to the end of the block);
\* m_workerThreadEnabled = true.
MtEnableLocked(r) ==
    /\ pc[Main(r)] = "enable_lock"
    /\ m_workerThreadMutex[r] = {}
    /\ m_workerThreadMutex' = [m_workerThreadMutex EXCEPT ![r] = {Main(r)}]
    /\ m_workerThreadEnabled' = [m_workerThreadEnabled EXCEPT ![r] = TRUE]
    /\ pc' = [pc EXCEPT ![Main(r)] = "spawn"]
    /\ UNCHANGED <<adapterVars, threadVars, harnessVars, variant, roles, m_isWorkerThreadRunning,
                   m_workerThreadCondVar, m_workerThread, executed, delivered, todo>>

\* The worker threads of role r that were started, and the next one to start.
Started(r) == {n \in 1..MaxCmds : pc[Worker(r, n)] # "unborn"}

\* A std::thread / std::jthread object that was started and not joined.
Joinable(r, n) == n # 0 /\ pc[Worker(r, n)] \notin {"unborn", "joined", "dead"}

\* std::make_unique<std::thread>(...): the new thread runs workerThreadWork.
Spawn(r) ==
    /\ pc[Main(r)] = "spawn"
    /\ Cardinality(Started(r)) < MaxCmds
    /\ pc' = [pc EXCEPT ![Main(r)] = "assign",
                        ![Worker(r, Cardinality(Started(r)) + 1)] = "top"]
    /\ UNCHANGED <<adapterVars, threadVars, harnessVars, variant, roles, flagVars, workerSync,
                   m_workerThread, executed, delivered, todo>>

\* m_workerThread = (the new object): the unique_ptr deletes the object it held.
\* ~thread() of a joinable std::thread is std::terminate(); ~jthread() of a
\* joinable std::jthread joins. The mt lock_guard ends here.
Assign(r) ==
    /\ pc[Main(r)] = "assign"
    /\ IF Joinable(r, m_workerThread[r])
       THEN IF variant = "cv"
            THEN /\ pc' = [t \in Threads |-> "dead"]
                 /\ call' = [t \in Threads |-> NoCall]
            ELSE /\ pc[Worker(r, m_workerThread[r])] = "finished"
                 /\ pc' = [pc EXCEPT ![Main(r)] = "loop",
                                     ![Worker(r, m_workerThread[r])] = "joined"]
                 /\ call' = call
       ELSE /\ pc' = [pc EXCEPT ![Main(r)] = "loop"]
            /\ call' = call
    /\ m_workerThread' = [m_workerThread EXCEPT ![r] = Cardinality(Started(r))]
    /\ m_workerThreadMutex' = [m_workerThreadMutex EXCEPT ![r] = @ \ {Main(r)}]
    /\ UNCHANGED <<adapterVars, value, ret, harnessVars, variant, roles, flagVars,
                   m_workerThreadCondVar, executed, delivered, todo>>

CvDisableKeeping(r) ==
    /\ variant = "cv" /\ pc[Main(r)] = "disable"
    /\ m_workerThreadMutex[r] = {}
    /\ pc' = [pc EXCEPT ![Main(r)] = IF m_workerThreadEnabled[r] THEN "notify" ELSE AfterDisable(r)]
    /\ UNCHANGED <<adapterVars, threadVars, harnessVars, variant, roles, flagVars,
                   workerSync, m_workerThread, executed, delivered, todo>>

\* concurrency::disableWorkerThreadIfEnabled: unique_lock; if (m_workerThreadEnabled)
\* { m_workerThreadEnabled = false; lock.unlock(); ... }.
CvDisable(r) ==
    /\ variant = "cv" /\ pc[Main(r)] = "disable"
    /\ m_workerThreadMutex[r] = {}
    /\ IF m_workerThreadEnabled[r]
       THEN /\ m_workerThreadEnabled' = [m_workerThreadEnabled EXCEPT ![r] = FALSE]
            /\ pc' = [pc EXCEPT ![Main(r)] = "notify"]
       ELSE /\ m_workerThreadEnabled' = m_workerThreadEnabled
            /\ pc' = [pc EXCEPT ![Main(r)] = AfterDisable(r)]
    /\ UNCHANGED <<adapterVars, threadVars, harnessVars, variant, roles, m_isWorkerThreadRunning,
                   workerSync, m_workerThread, executed, delivered, todo>>

CvNotifyNobody(r) ==
    /\ pc[Main(r)] = "notify"
    /\ pc' = [pc EXCEPT ![Main(r)] = "join"]
    /\ UNCHANGED <<adapterVars, threadVars, harnessVars, variant, roles, flagVars, workerSync,
                   m_workerThread, executed, delivered, todo>>

\* concurrency::disableWorkerThreadIfEnabled: m_workerThreadCondVar.notify_one().
CvNotify(r) ==
    /\ pc[Main(r)] = "notify"
    /\ IF m_workerThreadCondVar[r] = {}
       THEN /\ pc' = [pc EXCEPT ![Main(r)] = "join"]
            /\ m_workerThreadCondVar' = m_workerThreadCondVar
       ELSE \E w \in m_workerThreadCondVar[r] :
               /\ m_workerThreadCondVar' = [m_workerThreadCondVar EXCEPT ![r] = @ \ {w}]
               /\ pc' = [pc EXCEPT ![Main(r)] = "join", ![w] = "relock"]
    /\ UNCHANGED <<adapterVars, threadVars, harnessVars, variant, roles, flagVars,
                   m_workerThreadMutex, m_workerThread, executed, delivered, todo>>

MtInterruptClearing(r) ==
    /\ variant = "mt" /\ pc[Main(r)] = "disable"
    /\ m_workerThreadMutex[r] = {}
    /\ m_workerThreadMutex' = [m_workerThreadMutex EXCEPT ![r] = {Main(r)}]
    /\ m_workerThreadEnabled' = [m_workerThreadEnabled EXCEPT ![r] = FALSE]
    /\ m_adapter' = [m_adapter EXCEPT !["buffer"] = <<>>]
    /\ pc' = [pc EXCEPT ![Main(r)] = "join"]
    /\ UNCHANGED <<kind, comparator, store, m_mutex, m_condVar, threadVars, harnessVars, variant,
                   roles, m_isWorkerThreadRunning, m_workerThreadCondVar, m_workerThread,
                   executed, delivered, todo>>

\* mt::interruptWorkerThread: lock_guard; m_workerThreadEnabled = false.
MtInterrupt(r) ==
    /\ variant = "mt" /\ pc[Main(r)] = "disable"
    /\ m_workerThreadMutex[r] = {}
    /\ m_workerThreadMutex' = [m_workerThreadMutex EXCEPT ![r] = {Main(r)}]
    /\ m_workerThreadEnabled' = [m_workerThreadEnabled EXCEPT ![r] = FALSE]
    /\ pc' = [pc EXCEPT ![Main(r)] = "join"]
    /\ UNCHANGED <<adapterVars, threadVars, harnessVars, variant, roles, m_isWorkerThreadRunning,
                   m_workerThreadCondVar, m_workerThread, executed, delivered, todo>>

JoinDetached(r) ==
    /\ pc[Main(r)] = "join" /\ m_workerThread[r] # 0
    /\ pc' = [pc EXCEPT ![Main(r)] = AfterDisable(r)]
    /\ m_workerThreadMutex' = [m_workerThreadMutex EXCEPT ![r] = @ \ {Main(r)}]
    /\ UNCHANGED <<adapterVars, threadVars, harnessVars, variant, roles, flagVars,
                   m_workerThreadCondVar, m_workerThread, executed, delivered, todo>>

\* if (m_workerThread->joinable()) m_workerThread->join(), on a thread object:
\* join() returns once the worker has left workerThreadWork.
Join(r) ==
    /\ pc[Main(r)] = "join" /\ m_workerThread[r] # 0
    /\ IF Joinable(r, m_workerThread[r])
       THEN /\ pc[Worker(r, m_workerThread[r])] = "finished"
            /\ pc' = [pc EXCEPT ![Main(r)] = AfterDisable(r),
                                ![Worker(r, m_workerThread[r])] = "joined"]
       ELSE pc' = [pc EXCEPT ![Main(r)] = AfterDisable(r)]
    /\ m_workerThreadMutex' = [m_workerThreadMutex EXCEPT ![r] = @ \ {Main(r)}]
    /\ UNCHANGED <<adapterVars, threadVars, harnessVars, variant, roles, flagVars,
                   m_workerThreadCondVar, m_workerThread, executed, delivered, todo>>

\* m_workerThread->joinable() on the null unique_ptr no worker was ever assigned
\* to: undefined behaviour. What a build makes of it: the process dies on the
\* load through the null pointer and no thread runs any more ("crash"); the load yields "not joinable"
\* ("skip"); the load yields "joinable" and join() throws std::system_error,
\* which leaves mainThreadWork through its catch ("throw").
NullJoin(r) ==
    /\ pc[Main(r)] = "join" /\ m_workerThread[r] = 0
    /\ \E outcome \in {"crash", "skip", "throw"} :
          /\ pc' = CASE outcome = "crash" -> [t \in Threads |-> "dead"]
                     [] outcome = "skip" -> [pc EXCEPT ![Main(r)] = AfterDisable(r)]
                     [] OTHER -> [pc EXCEPT ![Main(r)] = "exited"]
          /\ call' = IF outcome = "crash" THEN [t \in Threads |-> NoCall] ELSE call
    /\ m_workerThreadMutex' = [m_workerThreadMutex EXCEPT ![r] = @ \ {Main(r)}]
    /\ UNCHANGED <<adapterVars, value, ret, harnessVars, variant, roles, flagVars,
                   m_workerThreadCondVar, m_workerThread, executed, delivered, todo>>

\* ------------------------------------------------------ workerThreadWork
\* The role and the variant a worker thread's workerThreadWork belongs to.
CvWorker(w) == variant = "cv" /\ w.kind = "worker"

MtWorker(w) == variant = "mt" /\ w.kind = "worker"

\* concurrency::workerThreadWork: unique_lock on m_workerThreadMutex and
\* m_isWorkerThreadRunning = true at the top of the loop; the same lock taken
\* again when wait() wakes up.
CvWorkerLock(w) ==
    /\ CvWorker(w) /\ pc[w] \in {"top", "relock"}
    /\ m_workerThreadMutex[w.role] = {}
    /\ m_workerThreadMutex' = [m_workerThreadMutex EXCEPT ![w.role] = {w}]
    /\ m_isWorkerThreadRunning' =
          [m_isWorkerThreadRunning EXCEPT ![w.role] = IF pc[w] = "top" THEN TRUE ELSE @]
    /\ pc' = [pc EXCEPT ![w] = "pred"]
    /\ UNCHANGED <<adapterVars, threadVars, harnessVars, variant, roles, m_workerThreadEnabled,
                   m_workerThreadCondVar, m_workerThread, executed, delivered, todo>>

\* The predicate of m_workerThreadCondVar.wait: !m_workerThreadEnabled ? true :
\* tryPop(...). Disabled: m_isWorkerThreadRunning = false; break (the lock goes
\* out of scope). Enabled: tryPop by reference on the role's source.
CvWorkerPred(w) ==
    /\ CvWorker(w) /\ pc[w] = "pred"
    /\ IF m_workerThreadEnabled[w.role]
       THEN /\ call' = [call EXCEPT ![w] = NewCall("tryPop", Source(w.role), "none", TRUE, 0)]
            /\ pc' = [pc EXCEPT ![w] = "trying"]
            /\ UNCHANGED <<m_isWorkerThreadRunning, m_workerThreadMutex>>
       ELSE /\ m_isWorkerThreadRunning' = [m_isWorkerThreadRunning EXCEPT ![w.role] = FALSE]
            /\ m_workerThreadMutex' = [m_workerThreadMutex EXCEPT ![w.role] = {}]
            /\ pc' = [pc EXCEPT ![w] = "finished"]
            /\ call' = call
    /\ UNCHANGED <<adapterVars, value, ret, harnessVars, variant, roles, m_workerThreadEnabled,
                   m_workerThreadCondVar, m_workerThread, executed, delivered, todo>>

MtWorkerLoopOn(w) ==
    /\ MtWorker(w) /\ pc[w] = "top"
    /\ call' = [call EXCEPT ![w] = NewCall("tryPop", Source(w.role), "none", TRUE, 0)]
    /\ pc' = [pc EXCEPT ![w] = "trying"]
    /\ UNCHANGED <<adapterVars, value, ret, harnessVars, variant, roles, flagVars, workerSync,
                   m_workerThread, executed, delivered, todo>>

\* mt::workerThreadWork: while (m_workerThreadEnabled) { tryPop(...) ... }.
MtWorkerLoop(w) ==
    /\ MtWorker(w) /\ pc[w] = "top"
    /\ IF m_workerThreadEnabled[w.role]
       THEN /\ call' = [call EXCEPT ![w] = NewCall("tryPop", Source(w.role), "none", TRUE, 0)]
            /\ pc' = [pc EXCEPT ![w] = "trying"]
       ELSE /\ pc' = [pc EXCEPT ![w] = "finished"]
            /\ call' = call
    /\ UNCHANGED <<adapterVars, value, ret, harnessVars, variant, roles, flagVars, workerSync,
                   m_workerThread, executed, delivered, todo>>

WorkerEmptyParks(w) ==
    /\ pc[w] = "trying" /\ call[w].at = "done" /\ ret[w].kind = "false"
    /\ call' = [call EXCEPT ![w] = NoCall]
    /\ ret' = [ret EXCEPT ![w] = NoRet]
    /\ m_workerThreadMutex' = [m_workerThreadMutex EXCEPT ![w.role] = @ \ {w}]
    /\ m_workerThreadCondVar' = [m_workerThreadCondVar EXCEPT ![w.role] = @ \cup {w}]
    /\ pc' = [pc EXCEPT ![w] = "waiting"]
    /\ UNCHANGED <<adapterVars, value, harnessVars, variant, roles, flagVars,
                   m_workerThread, executed, delivered, todo>>

\* tryPop returned false. cv: the predicate is false, wait() unlocks
\* m_workerThreadMutex and blocks on m_workerThreadCondVar. mt: yield and loop.
WorkerEmpty(w) ==
    /\ pc[w] = "trying" /\ call[w].at = "done" /\ ret[w].kind = "false"
    /\ call' = [call EXCEPT ![w] = NoCall]
    /\ ret' = [ret EXCEPT ![w] = NoRet]
    /\ IF variant = "cv"
       THEN /\ m_workerThreadMutex' = [m_workerThreadMutex EXCEPT ![w.role] = {}]
            /\ m_workerThreadCondVar' = [m_workerThreadCondVar EXCEPT ![w.role] = @ \cup {w}]
            /\ pc' = [pc EXCEPT ![w] = "waiting"]
       ELSE /\ pc' = [pc EXCEPT ![w] = "top"]
            /\ UNCHANGED workerSync
    /\ UNCHANGED <<adapterVars, value, harnessVars, variant, roles, flagVars,
                   m_workerThread, executed, delivered, todo>>

WorkerGotChecks(w) ==
    /\ pc[w] = "trying" /\ call[w].at = "done" /\ ret[w].kind = "true"
    /\ call' = [call EXCEPT ![w] = NoCall]
    /\ ret' = [ret EXCEPT ![w] = NoRet]
    /\ pc' = [pc EXCEPT ![w] = IF m_workerThreadEnabled[w.role] THEN "work" ELSE "finished"]
    /\ UNCHANGED <<adapterVars, value, harnessVars, variant, roles, flagVars, workerSync,
                   m_workerThread, executed, delivered, todo>>

\* tryPop returned true: the popped element is in the worker's local variable.
WorkerGot(w) ==
    /\ pc[w] = "trying" /\ call[w].at = "done" /\ ret[w].kind = "true"
    /\ call' = [call EXCEPT ![w] = NoCall]
    /\ ret' = [ret EXCEPT ![w] = NoRet]
    /\ pc' = [pc EXCEPT ![w] = "work"]
    /\ UNCHANGED <<adapterVars, value, harnessVars, variant, roles, flagVars, workerSync,
                   m_workerThread, executed, delivered, todo>>

\* m_workerThreadCondVar.wait may return without a notification.
CvWorkerSpurious(w) ==
    /\ pc[w] = "waiting" /\ w \in m_workerThreadCondVar[w.role]
    /\ m_workerThreadCondVar' = [m_workerThreadCondVar EXCEPT ![w.role] = @ \ {w}]
    /\ pc' = [pc EXCEPT ![w] = "relock"]
    /\ UNCHANGED <<adapterVars, threadVars, harnessVars, variant, roles, flagVars,
                   m_workerThreadMutex, m_workerThread, executed, delivered, todo>>

RoundDoneLocked(w) ==
    /\ m_workerThreadMutex' = m_workerThreadMutex
    /\ value' = [value EXCEPT ![w] = Unset]
    /\ pc' = [pc EXCEPT ![w] = "top"]

\* The end of one round of the work loop: cv lets go of m_workerThreadMutex, the
\* locals of the round are gone.
RoundDone(w) ==
    /\ m_workerThreadMutex' = [m_workerThreadMutex EXCEPT ![w.role] = @ \ {w}]
    /\ value' = [value EXCEPT ![w] = Unset]
    /\ pc' = [pc EXCEPT ![w] = "top"]

ProducerForwardChecking(w) ==
    /\ w.role = "producer" /\ pc[w] = "work" /\ Ready(w)
    /\ IF value[w] # <<>> /\ m_workerThreadEnabled[w.role]
       THEN /\ call' = [call EXCEPT ![w] = NewCall("push", "shared", "none", FALSE, Head(value[w]))]
            /\ value' = [value EXCEPT ![w] = Tail(@)]
            /\ UNCHANGED <<pc, m_workerThreadMutex>>
       ELSE /\ call' = [call EXCEPT ![w] = NoCall]
            /\ RoundDone(w)
    /\ ret' = [ret EXCEPT ![w] = NoRet]
    /\ UNCHANGED <<adapterVars, harnessVars, variant, roles, flagVars, m_workerThreadCondVar,
                   m_workerThread, executed, delivered, todo>>

\* Producer::workerThreadWork: for (auto& item : vectorItem)
\* m_sharedContainer.push(std::move(item)).
ProducerForward(w) ==
    /\ w.role = "producer" /\ pc[w] = "work" /\ Ready(w)
    /\ IF value[w] # <<>>
       THEN /\ call' = [call EXCEPT ![w] = NewCall("push", "shared", "none", FALSE, Head(value[w]))]
            /\ value' = [value EXCEPT ![w] = Tail(@)]
            /\ UNCHANGED <<pc, m_workerThreadMutex>>
       ELSE /\ call' = [call EXCEPT ![w] = NoCall]
            /\ RoundDone(w)
    /\ ret' = [ret EXCEPT ![w] = NoRet]
    /\ UNCHANGED <<adapterVars, harnessVars, variant, roles, flagVars, m_workerThreadCondVar,
                   m_workerThread, executed, delivered, todo>>

\* Consumer::workerThreadWork: m_callable(std::move_if_noexcept(item)); the
\* callable here records what it was given.
ConsumerDeliver(w) ==
    /\ w.role = "consumer" /\ pc[w] = "work"
    /\ delivered' = Append(delivered, value[w])
    /\ RoundDone(w)
    /\ UNCHANGED <<adapterVars, call, ret, harnessVars, variant, roles, flagVars,
                   m_workerThreadCondVar, m_workerThread, executed, todo>>

\* ------------------------------------------------- one role on its own
\* The adapters of a run with roles: all of them queues (m_commandQueue and
\* m_vectorItemsQueue by their declarations, m_sharedContainer by the caller's
\* choice); no user threads.
InitQueues(seed) ==
    /\ kind = [a \in Adapters |-> "queue"]
    /\ comparator = "less"
    /\ menu = [t \in Threads |-> {}]
    /\ plain = [a \in Adapters |-> IF a = "shared" THEN Plain(seed, "less") ELSE NoPlain]
    /\ InitAdapters /\ InitRoles

\* The constructors have run: runMainThread has started the control threads.
Constructed(rs) ==
    /\ roles = rs
    /\ pc = [t \in Threads |-> IF t = Client THEN "run"
                               ELSE IF t.kind = "main" /\ t.role \in rs THEN "loop"
                               ELSE "unborn"]

\* A Producer, or a Consumer whose shared adapter was made from a queue holding
\* Batch; the owner calls what it likes, MaxCmds commands at most.
Init ==
    /\ variant \in {"cv", "mt"}
    /\ \E r \in Roles :
          /\ Constructed({r})
          /\ InitQueues(IF r = "consumer" THEN Batch ELSE <<>>)
    /\ todo = <<AnyOp>>

Next ==
    \/ \E r \in Roles :
          \/ enableWorkerThread(r) \/ disableWorkerThread(r) \/ shutdownMainThread(r)
          \/ JoinMainThread(r)
          \/ MainWaitAndPop(r) \/ MainDispatch(r)
          \/ CvEnable(r) \/ MtEnable(r) \/ MtEnableLocked(r) \/ Spawn(r) \/ Assign(r)
          \/ CvDisable(r) \/ CvNotify(r) \/ MtInterrupt(r) \/ Join(r) \/ NullJoin(r)
    \/ ProducerPush
    \/ \E t \in Threads :
          \/ CvWorkerLock(t) \/ CvWorkerPred(t) \/ MtWorkerLoop(t)
          \/ WorkerEmpty(t) \/ WorkerGot(t) \/ CvWorkerSpurious(t)
          \/ ProducerForward(t) \/ ConsumerDeliver(t)
          \/ AdLock(t) \/ AdBody(t) \/ AdNotify(t) \/ AdSpuriousWake(t)

Spec == Init /\ [][Next]_vars

\* --------------------------------------------- at most one live worker
\* The worker threads of role r that were spawned and have neither left
\* workerThreadWork nor been joined.
Live(r) == {n \in 1..MaxCmds : pc[Worker(r, n)] \notin {"unborn", "finished", "joined", "dead"}}

\* C1: for one Producer or Consumer, of either variant, whatever the owner calls
\* (enableWorkerThread, disableWorkerThread, the destructor) and however the
\* threads interleave, at most one worker thread is live in any reachable state.
C1_OneLiveWorker == \A r \in Roles : Cardinality(Live(r)) <= 1

\* Enable, Disable, Enable were executed: the first worker was joined, the
\* second one is running.
C1_Witness ==
    \E r \in Roles :
       /\ executed[r] = <<"EnableWorkerThread", "DisableWorkerThread", "EnableWorkerThread">>
       /\ pc[Worker(r, 1)] = "joined"
       /\ Live(r) = {2}

\* ------------------------------------------------- commands in order
IsPrefix(s, t) == Len(s) <= Len(t) /\ \A i \in 1..Len(s) : s[i] = t[i]

\* The commands of role r in the order pushAndNotify put them into m_commandQueue.
Enqueued(r) == store[m_commandQueue(r)]

\* A step that executes a command of role r is a step of r's control thread
\* out of its dispatch, and the command is the next enqueued one.
C2_Executes(r) ==
    executed'[r] # executed[r] =>
       /\ pc[Main(r)] = "command" /\ pc'[Main(r)] \in {"enable", "disable"}
       /\ Len(executed[r]) < Len(Enqueued(r))
       /\ executed'[r] = Append(executed[r], Enqueued(r)[Len(executed[r]) + 1])

\* C2: the commands a role has executed are, in every reachable state, the
\* first ones that were enqueued for it, in the order of their enqueueing, each
\* of them once; only the role's control thread executes one.
C2_CommandOrder ==
    /\ [](\A r \in Roles : IsPrefix(executed[r], Enqueued(r)))
    /\ [][\A r \in Roles : C2_Executes(r)]_vars

\* Two different commands were executed while a third one is still queued.
C2_Witness ==
    \E r \in Roles :
       /\ Len(executed[r]) = 2 /\ executed[r][1] # executed[r][2]
       /\ Len(Enqueued(r)) = 3 /\ Len(m_adapter[m_commandQueue(r)]) = 1

\* ------------------------------------------------ no command is missed
\* One role of the cv variant under a fair scheduler.
InitLive == Init /\ variant = "cv"

NextLive ==
    \/ \E r \in Roles :
          \/ enableWorkerThread(r) \/ disableWorkerThread(r) \/ shutdownMainThread(r)
          \/ JoinMainThread(r)
          \/ MainWaitAndPop(r) \/ MainDispatch(r)
          \/ CvEnable(r) \/ Spawn(r) \/ Assign(r)
          \/ CvDisable(r) \/ CvNotify(r) \/ Join(r)
    \/ ProducerPush
    \/ \E t \in Threads :
          \/ CvWorkerLock(t) \/ CvWorkerPred(t)
          \/ WorkerEmpty(t) \/ WorkerGot(t) \/ CvWorkerSpurious(t)
          \/ ProducerForward(t) \/ ConsumerDeliver(t)
          \/ AdLock(t) \/ AdBody(t) \/ AdNotify(t) \/ AdSpuriousWake(t)

\* The steps of a thread inside an adapter call that do not depend on luck.
CallStep(t) == AdLock(t) \/ AdBody(t) \/ AdNotify(t)

\* The steps of the role's control thread and of its worker threads.
ControlStep ==
    \E r \in Roles :
       \/ MainWaitAndPop(r) \/ MainDispatch(r) \/ CvEnable(r) \/ Spawn(r) \/ Assign(r)
       \/ CvDisable(r) \/ CvNotify(r) \/ Join(r) \/ CallStep(Main(r))

WorkerStep ==
    \E r \in Roles : \E w \in Workers(r) :
       \/ CvWorkerLock(w) \/ CvWorkerPred(w) \/ WorkerEmpty(w) \/ WorkerGot(w)
       \/ ProducerForward(w) \/ ConsumerDeliver(w) \/ CallStep(w)

\* A fair scheduler: a thread that can take a step again and again does take
\* one (a thread is at one place of its code, so this is fairness for each of
\* its steps, strong where the step takes a mutex; there is one control thread,
\* and never more than one worker that can run). The owner may stop calling at
\* any time, but returns from a call it has made; no wait has to return
\* without a notification.
SpecLive ==
    /\ InitLive /\ [][NextLive]_vars
    /\ SF_vars(ControlStep) /\ SF_vars(WorkerStep) /\ SF_vars(CallStep(Client))

\* The control thread of role r is blocked in m_commandQueue.waitAndPop.
MainSuspended(r) == Main(r) \in m_condVar[m_commandQueue(r)]

\* C3: in the cv variant, under fair scheduling and with a callback that
\* returns, no command is missed: again and again the role's control thread
\* has executed every command enqueued so far (commands are enqueued one by
\* one and executed in that order, ShutdownMainThread being the last, so each
\* enqueued command is eventually executed), and a control thread does not
\* stay blocked in waitAndPop while its command queue holds a command.
C3_NoCommandMissed ==
    /\ []<>(\A r \in Roles : executed[r] = Enqueued(r))
    /\ []<>(\A r \in Roles : ~(MainSuspended(r) /\ m_adapter[m_commandQueue(r)] # <<>>))

\* The control thread was blocked on an empty queue, a command was pushed, and
\* it was woken and has executed every command enqueued so far, three of them.
C3_Witness ==
    \E r \in Roles :
       /\ Len(executed[r]) = 3 /\ executed[r] = Enqueued(r)
       /\ executed[r][3] = "ShutdownMainThread"
       /\ pc[Main(r)] = "exited"

\* ------------------------------------------- a Producer and a Consumer
\* What main() calls, in its order, up to the second enableWorkerThread.
Script ==
    <<Op("enable", "producer"), Op("enable", "consumer"), Op("push", "producer"),
      Op("disable", "producer"), Op("disable", "consumer"),
      Op("enable", "producer"), Op("enable", "consumer"), EndOp>>

\* A Producer and a Consumer on one empty shared queue.
InitPipe ==
    /\ variant \in {"cv", "mt"}
    /\ Constructed(Roles)
    /\ InitQueues(<<>>)
    /\ todo = Script

NextPipe ==
    \/ \E r \in Roles :
          \/ enableWorkerThread(r) \/ disableWorkerThread(r)
          \/ MainWaitAndPop(r) \/ MainDispatch(r)
          \/ CvEnable(r) \/ MtEnable(r) \/ MtEnableLocked(r) \/ Spawn(r) \/ Assign(r)
          \/ CvDisable(r) \/ CvNotify(r) \/ MtInterrupt(r) \/ Join(r)
    \/ ProducerPush
    \/ \E t \in Threads :
          \/ CvWorkerLock(t) \/ CvWorkerPred(t) \/ MtWorkerLoop(t)
          \/ WorkerEmpty(t) \/ WorkerGot(t) \/ CvWorkerSpurious(t)
          \/ ProducerForward(t) \/ ConsumerDeliver(t)
          \/ AdLock(t) \/ AdBody(t) \/ AdNotify(t) \/ AdSpuriousWake(t)

SpecPipe == InitPipe /\ [][NextPipe]_vars

\* The script is through, and every thread is blocked in a wait that only a
\* notification (or luck) ends, or is not running: nothing more will happen.
Quiescent ==
    /\ todo = <<EndOp>> /\ call[Client].at = "done"
    /\ \A r \in Roles :
          /\ MainSuspended(r)
          /\ \A w \in Workers(r) :
                \/ pc[w] \in {"unborn", "joined"}
                \/ pc[w] = "waiting" /\ w \in m_workerThreadCondVar[r]

\* C4: a Producer and a Consumer share a queue; after enable, push(Batch),
\* disable, enable on both, the callback is given the items of Batch, each
\* once and in the order of Batch, and when nothing more can happen it has
\* been given all of them.
C4_AllDelivered ==
    /\ IsPrefix(delivered, Batch)
    /\ Quiescent => delivered = Batch

\* ------------------------------------------------ a callback that throws
\* Consumer::workerThreadWork: m_callable throws. Nothing in the loop catches;
\* the exception leaves workerThreadWork (the unique_lock of the cv variant is
\* released on the way, m_isWorkerThreadRunning and m_workerThreadEnabled stay
\* as they are) and is caught in the thread's entry lambda, which returns.
CallbackThrows(w) ==
    /\ w.role = "consumer" /\ pc[w] = "work"
    /\ m_workerThreadMutex' = [m_workerThreadMutex EXCEPT ![w.role] = @ \ {w}]
    /\ value' = [value EXCEPT ![w] = Unset]
    /\ pc' = [pc EXCEPT ![w] = "finished"]
    /\ UNCHANGED <<adapterVars, call, ret, harnessVars, variant, roles, flagVars,
                   m_workerThreadCondVar, m_workerThread, executed, delivered, todo>>

\* One role of either variant whose callback returns or throws.
NextThrow == Next \/ \E w \in Threads : CallbackThrows(w)

SpecThrow == Init /\ [][NextThrow]_vars

\* The control thread of role r leaves the test of its EnableWorkerThread branch.
ExecutesEnable(r) == pc[Main(r)] = "enable" /\ pc'[Main(r)] \notin {"enable", "dead"}

\* C11: when the control thread executes EnableWorkerThread while no worker
\* thread of the role is active, whatever Enable/Disable cycles and worker
\* terminations came before, it goes on to start a worker thread.
C11_EnableStarts ==
    [][\A r \in Roles : (ExecutesEnable(r) /\ Live(r) = {})
                           => pc'[Main(r)] \in {"spawn", "enable_lock"}]_vars

\* ------------------------------------------------- Enable while Running
\* C12: executing EnableWorkerThread while a worker thread of the role is
\* active changes nothing but the control thread's place in its loop: no thread
\* is started, m_workerThread and the worker are as before, and so are the
\* flags, the mutex, the condition variable and every adapter.
C12_EnableIdempotent ==
    [][\A r \in Roles : (ExecutesEnable(r) /\ Live(r) # {}) =>
          /\ pc' = [pc EXCEPT ![Main(r)] = "loop"]
          /\ UNCHANGED <<adapterVars, threadVars, flagVars, workerSync, m_workerThread,
                         delivered>>]_vars

\* EnableWorkerThread was executed twice, the second time with the first
\* worker running; that worker is still the only one.
C12_Witness ==
    \E r \in Roles :
       /\ executed[r] = <<"EnableWorkerThread", "EnableWorkerThread">>
       /\ pc[Main(r)] = "loop"
       /\ Live(r) = {1} /\ Started(r) = {1} /\ m_workerThread[r] = 1

\* ------------------------------------------------ Disable while Running
\* The steps of the control thread and of the workers, of either variant.
ControlStepAny ==
    \/ ControlStep
    \/ \E r \in Roles : MtEnable(r) \/ MtEnableLocked(r) \/ MtInterrupt(r) \/ NullJoin(r)

WorkerStepAny == WorkerStep \/ \E r \in Roles : \E w \in Workers(r) : MtWorkerLoop(w)

\* One role of either variant under a fair scheduler (as in SpecLive).
SpecFair ==
    /\ Init /\ [][Next]_vars
    /\ SF_vars(ControlStepAny) /\ SF_vars(WorkerStepAny) /\ SF_vars(CallStep(Client))

\* The control thread of role r is in disableWorkerThreadIfEnabled /
\* interruptWorkerThread, and the worker it started has not been joined yet.
Stopping(r) ==
    /\ pc[Main(r)] \in {"disable", "notify", "join"}
    /\ Joinable(r, m_workerThread[r])

\* The control thread of role r returns from disableWorkerThreadIfEnabled /
\* interruptWorkerThread.
CompletesDisable(r) ==
    pc[Main(r)] \in {"disable", "notify", "join"} /\ pc'[Main(r)] \in {"loop", "exited"}

\* C13: under fair scheduling and with a callback that returns, the control
\* thread executing DisableWorkerThread (or ShutdownMainThread) with a worker
\* running does not stay in it: the worker, wherever it was, leaves its loop and
\* is joined; and when the control thread is through, the flag is clear, no
\* worker is live and the worker mutex is free.
C13_DisableCompletes ==
    /\ []<>(\A r \in Roles : ~Stopping(r))
    /\ [][\A r \in Roles : CompletesDisable(r) =>
             /\ ~m_workerThreadEnabled'[r] /\ Live(r)' = {}
             /\ m_workerThreadMutex'[r] = {}]_vars

\* Enable, then Disable, have been executed: the worker is joined, the flag clear.
C13_Witness ==
    \E r \in Roles :
       /\ executed[r] = <<"EnableWorkerThread", "DisableWorkerThread">>
       /\ pc[Main(r)] = "loop" /\ pc[Worker(r, 1)] = "joined"
       /\ ~m_workerThreadEnabled[r]

\* --------------------------------------------------- Disable while Idle
\* The control thread of role r leaves disableWorkerThreadIfEnabled /
\* interruptWorkerThread, which it was in with no worker to join: none was ever
\* started, or the last one was joined.
LeavesDisableIdle(r) ==
    /\ pc[Main(r)] \in {"disable", "join"} /\ pc'[Main(r)] \notin {"disable", "join"}
    /\ ~Joinable(r, m_workerThread[r])

\* C14: executing DisableWorkerThread while the role is Idle, after an
\* Enable/Disable cycle or with no worker ever started, touches no thread and
\* raises no error: the flag stays clear and the control thread goes on with
\* its loop, every other thread being where it was.
C14_DisableIdleNoop ==
    [][\A r \in Roles : LeavesDisableIdle(r) =>
          /\ pc' = [pc EXCEPT ![Main(r)] = AfterDisable(r)]
          /\ ~m_workerThreadEnabled'[r]]_vars

\* ------------------------------------------------------------ destruction
\* The destructor of role r returns (shutdownMainThread has joined m_mainThread).
DestructorReturns(r) == r \in roles /\ r \notin roles'

\* C15: destroying a role, Running or Idle, with or without a worker ever
\* started, does not bring the process down, and returns only when the control
\* thread has executed every command enqueued for the role, ShutdownMainThread
\* being the last, has exited, and no worker thread of the role is left
\* unjoined.
C15_DestroyJoins ==
    /\ [](pc[Client] # "dead")
    /\ [][\A r \in Roles : DestructorReturns(r) =>
             /\ executed[r] = Enqueued(r)
             /\ executed[r][Len(executed[r])] = "ShutdownMainThread"
             /\ pc[Main(r)] = "exited"
             /\ \A n \in 1..MaxCmds : ~Joinable(r, n)]_vars

\* ---------------------------------------------------- ShutDown is terminal
\* A second thread using the role: it calls enableWorkerThread while the
\* owner is in the destructor, blocked in m_mainThread->join(), the
\* ShutdownMainThread command already in the queue.
LateCaller == Thr("user", "none", 1)

LateEnable(r) ==
    /\ r \in roles /\ pc[Client] = "join" /\ call[Client].at = "done"
    /\ Ready(LateCaller) /\ Issued < MaxCmds
    /\ call' = [call EXCEPT ![LateCaller] =
                   NewCall("pushAndNotify", m_commandQueue(r), "none", FALSE, "EnableWorkerThread")]
    /\ UNCHANGED <<adapterVars, value, ret, harnessVars, roleVars>>

\* One role of either variant up to the return of its destructor, with a late
\* caller.
NextLate ==
    \/ \E r \in Roles :
          \/ enableWorkerThread(r) \/ disableWorkerThread(r) \/ shutdownMainThread(r)
          \/ LateEnable(r)
          \/ MainWaitAndPop(r) \/ MainDispatch(r)
          \/ CvEnable(r) \/ MtEnable(r) \/ MtEnableLocked(r) \/ Spawn(r) \/ Assign(r)
          \/ CvDisable(r) \/ CvNotify(r) \/ MtInterrupt(r) \/ Join(r) \/ NullJoin(r)
    \/ ProducerPush
    \/ \E t \in Threads :
          \/ CvWorkerLock(t) \/ CvWorkerPred(t) \/ MtWorkerLoop(t)
          \/ WorkerEmpty(t) \/ WorkerGot(t) \/ CvWorkerSpurious(t)
          \/ ProducerForward(t) \/ ConsumerDeliver(t)
          \/ AdLock(t) \/ AdBody(t) \/ AdNotify(t) \/ AdSpuriousWake(t)

SpecLate == Init /\ [][NextLate]_vars

\* The control thread of role r has executed ShutdownMainThread.
ShutDown(r) == \E i \in DOMAIN executed[r] : executed[r][i] = "ShutdownMainThread"

\* C16: once the control thread has executed ShutdownMainThread it executes
\* no further command, whether enqueued behind it or after it, and starts no
\* worker thread.
C16_ShutDownTerminal ==
    [][\A r \in Roles : ShutDown(r) =>
          /\ executed'[r] = executed[r]
          /\ \A w \in Workers(r) : pc[w] = "unborn" => pc'[w] \in {"unborn", "dead"}]_vars

\* The control thread has executed ShutdownMainThread and exited; an
\* EnableWorkerThread enqueued behind it is still in the queue.
C16_Witness ==
    \E r \in Roles :
       /\ ShutDown(r) /\ pc[Main(r)] = "exited"
       /\ m_adapter[m_commandQueue(r)] # <<>>
       /\ Payload(Head(m_adapter[m_commandQueue(r)])) = "EnableWorkerThread"

\* ------------------------------------------- asynchronous enable / disable
\* Whoever owns the mutex of a command queue is inside a member function of
\* the queue, past its lock and not in a wait: it gives the mutex back by its
\* own next step, without waiting for the control thread's work or a worker
\* (as long as the process runs).
QueueOwnersRun ==
    \A r \in Roles : \A t \in m_mutex[m_commandQueue(r)] :
       pc[t] # "dead" => call[t].at = "locked" /\ call[t].a = m_commandQueue(r)

\* A step of the owner thread in one of its calls.
OwnerStep == call'[Client] # call[Client] /\ pc'[Client] # "dead"

\* C17: enableWorkerThread and disableWorkerThread only put one command into
\* the role's command queue: the caller waits for nothing but the queue's
\* mutex, which nobody keeps while blocked, and no step of the caller changes
\* the flags, the worker mutex and condition variable, m_workerThread, what was
\* executed, or where the control thread and the workers are.
C17_Asynchronous ==
    /\ []QueueOwnersRun
    /\ [][OwnerStep =>
             /\ UNCHANGED <<flagVars, workerSync, m_workerThread, executed, delivered>>
             /\ \A t \in Threads \ {Client} : pc'[t] = pc[t]
             /\ \A r \in Roles : Len(Enqueued(r)') <= Len(Enqueued(r)) + 1]_vars

\* The owner's call has returned, its command is in the queue, while the
\* control thread is blocked joining a worker that is inside the callback
\* (mt), or blocked on the worker mutex the worker keeps during the callback (cv).
C17_Witness ==
    \E r \in Roles : \E w \in Workers(r) :
       /\ call[Client].at = "done" /\ call[Client].a = m_commandQueue(r)
       /\ m_adapter[m_commandQueue(r)] # <<>>
       /\ pc[w] = "work"
       /\ \/ variant = "mt" /\ pc[Main(r)] = "join"
          \/ variant = "cv" /\ pc[Main(r)] = "disable"

\* ------------------------------------------------- new items and a blocked worker
\* Role r is Running and at rest: its owner is in no call, its control thread
\* is blocked on the empty command queue, its worker is blocked in
\* m_workerThreadCondVar.wait. Nothing happens from here unless the owner
\* calls again or a wait returns without a notification.
Parked(r) ==
    /\ r \in roles /\ call[Client].at \in {"idle", "done"}
    /\ MainSuspended(r) /\ m_adapter[m_commandQueue(r)] = <<>>
    /\ m_workerThreadEnabled[r]
    /\ \E w \in Workers(r) : pc[w] = "waiting" /\ w \in m_workerThreadCondVar[r]

\* C18: in the cv variant a batch given to Producer::push while the worker
\* is blocked on the empty buffer wakes the worker and is forwarded: the
\* Producer is never at rest with a batch in its buffer.
C18_PushWakes == Parked("producer") => m_adapter["buffer"] = <<>>

\* C19: in the cv variant an element the Producer's worker puts into the
\* shared adapter while the Consumer's worker is blocked on the empty adapter
\* wakes that worker and is given to the callback: Producer and Consumer are
\* never both at rest with an element in the shared adapter.
C19_ConsumerNotified ==
    (Parked("producer") /\ Parked("consumer")) => m_adapter["shared"] = <<>>

\* ------------------------------------------- the busy-yield pipeline
\* main(): both roles enabled, then MaxBatches calls of push, and no disable.
RECURSIVE Pushes(_)
Pushes(n) == IF n = 0 THEN <<>> ELSE <<Op("push", "producer")>> \o Pushes(n - 1)

ScriptRun ==
    <<Op("enable", "producer"), Op("enable", "consumer")>> \o Pushes(MaxBatches) \o <<EndOp>>

InitBusy ==
    /\ variant = "mt"
    /\ Constructed(Roles)
    /\ InitQueues(<<>>)
    /\ todo = ScriptRun

NextBusy ==
    \/ \E r \in Roles :
          \/ enableWorkerThread(r)
          \/ MainWaitAndPop(r) \/ MainDispatch(r)
          \/ MtEnable(r) \/ MtEnableLocked(r) \/ Spawn(r) \/ Assign(r)
    \/ ProducerPush
    \/ \E t \in Threads :
          \/ MtWorkerLoop(t) \/ WorkerEmpty(t) \/ WorkerGot(t)
          \/ ProducerForward(t) \/ ConsumerDeliver(t)
          \/ AdLock(t) \/ AdBody(t) \/ AdNotify(t) \/ AdSpuriousWake(t)

\* The steps of main, of the control thread of role r, and of r's workers.
MainStep == CallStep(Client) \/ ProducerPush \/ \E r \in Roles : enableWorkerThread(r)

MtControlStep(r) ==
    \/ MainWaitAndPop(r) \/ MainDispatch(r) \/ MtEnable(r) \/ MtEnableLocked(r)
    \/ Spawn(r) \/ Assign(r) \/ CallStep(Main(r))

MtWorkerStep(r) ==
    \E w \in Workers(r) :
       \/ MtWorkerLoop(w) \/ WorkerEmpty(w) \/ WorkerGot(w)
       \/ ProducerForward(w) \/ ConsumerDeliver(w) \/ CallStep(w)

\* A fair scheduler for main, the two control threads and the two workers.
SpecBusy ==
    /\ InitBusy /\ [][NextBusy]_vars
    /\ SF_vars(MainStep)
    /\ \A r \in Roles : SF_vars(MtControlStep(r)) /\ SF_vars(MtWorkerStep(r))

\* How often v occurs in s.
Count(s, v) == Cardinality({i \in DOMAIN s : s[i] = v})

\* Every item of every batch that is in the Producer's buffer or went through
\* it has been given to the callback.
AllPassed ==
    \A v \in Values : Count(delivered, v) >= Len(store["buffer"]) * Count(Batch, v)

\* C20: in the mt variant, under fair scheduling and with a callback that
\* returns, with Producer and Consumer both enabled and never disabled, again
\* and again every item of every batch pushed so far has been given to the
\* callback (batches are pushed one by one, so each item of each batch is
\* eventually given to it).
C20_BusyDelivers == []<>AllPassed

\* Every batch was pushed and all their items were given to the callback,
\* by workers that are still running.
C20_Witness ==
    /\ variant = "mt" /\ Len(store["buffer"]) = MaxBatches
    /\ Len(delivered) = MaxBatches * Len(Batch)
    /\ \A r \in Roles : m_workerThreadEnabled[r] /\ Live(r) # {}

\* --------------------------- a thread waiting on the shared adapter
\* A thread of the caller's that takes elements from the shared adapter with
\* waitAndPop, in either form, next to a Producer that is enabled and given
\* MaxBatches batches.
MenuTap == {Entry("waitAndPop", "shared", "none", r, {0}) : r \in BOOLEAN}

ScriptTap == <<Op("enable", "producer")>> \o Pushes(MaxBatches) \o <<EndOp>>

InitTap ==
    /\ variant \in {"cv", "mt"}
    /\ Constructed({"producer"})
    /\ kind = [a \in Adapters |-> "queue"]
    /\ comparator = "less"
    /\ menu = [t \in Threads |-> IF t = Waiter THEN MenuTap ELSE {}]
    /\ plain = [a \in Adapters |-> NoPlain]
    /\ InitAdapters /\ InitRoles
    /\ todo = ScriptTap

NextTap ==
    \/ enableWorkerThread("producer") \/ ProducerPush
    \/ MainWaitAndPop("producer") \/ MainDispatch("producer")
    \/ CvEnable("producer") \/ MtEnable("producer") \/ MtEnableLocked("producer")
    \/ Spawn("producer") \/ Assign("producer")
    \/ UserPop(Waiter) \/ UserReturn(Waiter)
    \/ \E t \in Threads :
          \/ CvWorkerLock(t) \/ CvWorkerPred(t) \/ MtWorkerLoop(t)
          \/ WorkerEmpty(t) \/ WorkerGot(t) \/ CvWorkerSpurious(t)
          \/ ProducerForward(t)
          \/ AdLock(t) \/ AdBody(t) \/ AdNotify(t) \/ AdSpuriousWake(t)

SpecTap == InitTap /\ [][NextTap]_vars

\* The Producer's worker w puts an item into the shared adapter in this step.
Forwards(w) ==
    /\ w.role = "producer" /\ call[w].a = "shared"
    /\ call[w].at = "locked" /\ call'[w].at # "locked"

\* No worker of the Producer is inside a call on the shared adapter.
ForwardsOver ==
    \A w \in Workers("producer") : call[w].a = "shared" => call[w].at \in {"idle", "done"}

\* C21: each step in which a Producer worker places an item in the shared
\* adapter leaves the worker before the notify_one of pushAndNotify on that
\* adapter, and so no thread stays suspended in waitAndPop on the shared adapter
\* while it holds an element and no forwarding call is under way.
C21_ForwardNotifies ==
    /\ [][\A w \in Threads : Forwards(w) => call'[w].at = "notify"]_vars
    /\ []((Waiter \in m_condVar["shared"] /\ ForwardsOver) => m_adapter["shared"] = <<>>)

\* ------------------------------------------------ deliver before exit
\* Worker w has taken an element out of its source and not yet used it.
Holding(w) ==
    \/ pc[w] = "trying" /\ call[w].at = "done" /\ ret[w].kind = "true"
    \/ pc[w] = "work"

\* The elements taken out of adapter a so far.
Removed(a) == Len(store[a]) - Len(m_adapter[a])

\* Worker w leaves workerThreadWork in this step.
WorkerExits(w) == pc[w] \notin {"finished", "dead"} /\ pc'[w] = "finished"

\* C22: the elements given to the callback and the ones a Consumer worker
\* holds are exactly the elements removed from the shared adapter, in the
\* order of their removal; a worker that holds an element gives it to the
\* callback in its next step of its own, whatever the control thread has
\* executed meanwhile; the step in which a worker exits is taken by a worker
\* that holds nothing and removes nothing.
C22_DeliverBeforeExit ==
    /\ [](/\ IsPrefix(delivered, Batch)
          /\ Len(delivered) + Cardinality({w \in Workers("consumer") : Holding(w)})
                = Removed("shared"))
    /\ [][\A w \in Workers("consumer") :
            /\ (pc[w] = "work" /\ pc'[w] # "work") => delivered' = Append(delivered, value[w])
            /\ WorkerExits(w) => ~Holding(w) /\ m_adapter'["shared"] = m_adapter["shared"]]_vars

\* The mt Consumer has given 5 to the callback and has taken 1 out of the
\* shared adapter; the control thread has executed DisableWorkerThread and
\* cleared the flag before 1 is delivered.
C22_Witness ==
    /\ variant = "mt" /\ delivered = <<5>>
    /\ \E w \in Workers("consumer") : pc[w] = "work" /\ value[w] = 1
    /\ ~m_workerThreadEnabled["consumer"] /\ pc[Main("consumer")] = "join"

\* ------------------------------------------- no access after disable
\* The role's flag is clear and its control thread is not inside
\* disableWorkerThreadIfEnabled / interruptWorkerThread: DisableWorkerThread has
\* been completed and no EnableWorkerThread has set the flag since (or none
\* ever has).
AtRest(r) == ~m_workerThreadEnabled[r] /\ pc[Main(r)] \notin {"notify", "join"}

\* Worker w is not running and is in no adapter call.
Gone(w) == pc[w] \in {"unborn", "joined", "dead"} /\ call[w] = NoCall

\* C23: while a role is disabled and its control thread is outside the disable
\* code, every worker of the role is unborn or joined and inside no adapter
\* call, and no step changes a worker's position or call (unless the process
\* dies) or calls the callback.
C23_NoAccessAfterDisable ==
    /\ [](\A r \in Roles : AtRest(r) => \A w \in Workers(r) : Gone(w))
    /\ [][\A r \in Roles : (AtRest(r) /\ r \in roles) =>
            /\ \A w \in Workers(r) : pc'[w] \in {pc[w], "dead"} /\ call'[w] = call[w]
            /\ delivered' = delivered]_vars

\* DisableWorkerThread was completed on a Consumer whose worker had given 5 to
\* the callback: the worker is joined, 1 is still in the shared adapter, and
\* the control thread is back in its loop.
C23_Witness ==
    /\ AtRest("consumer") /\ "consumer" \in roles
    /\ pc[Main("consumer")] \in {"loop", "command"}
    /\ \E w \in Workers("consumer") : pc[w] = "joined"
    /\ delivered = <<5>> /\ Len(m_adapter["shared"]) = 1

\* ------------------------------------- the Producer's buffer is kept
\* How many batches the owner of a Producer gives it in a run in which it
\* enables and disables the Producer as it likes.
MaxBuffered == 2

\* Producer::push(items), up to MaxBuffered times.
ProducerPushBuffered ==
    /\ MayDo("push", "producer") /\ Len(store["buffer"]) < MaxBuffered
    /\ call' = [call EXCEPT ![Client] = NewCall("push", "buffer", "none", FALSE, Batch)]
    /\ UNCHANGED <<adapterVars, value, ret, harnessVars, variant, flagVars, workerSync,
                   m_workerThread, executed, delivered, pc, roles>>

InitBuffer ==
    /\ variant \in {"cv", "mt"}
    /\ Constructed({"producer"})
    /\ InitQueues(<<>>)
    /\ todo = <<AnyOp>>

NextBuffer ==
    \/ enableWorkerThread("producer") \/ disableWorkerThread("producer")
    \/ ProducerPushBuffered
    \/ MainWaitAndPop("producer") \/ MainDispatch("producer")
    \/ CvEnable("producer") \/ MtEnable("producer") \/ MtEnableLocked("producer")
    \/ Spawn("producer") \/ Assign("producer")
    \/ CvDisable("producer") \/ CvNotify("producer") \/ MtInterrupt("producer")
    \/ Join("producer") \/ NullJoin("producer")
    \/ \E t \in Threads :
          \/ CvWorkerLock(t) \/ CvWorkerPred(t) \/ MtWorkerLoop(t)
          \/ WorkerEmpty(t) \/ WorkerGot(t) \/ CvWorkerSpurious(t)
          \/ ProducerForward(t)
          \/ AdLock(t) \/ AdBody(t) \/ AdNotify(t) \/ AdSpuriousWake(t)

SpecBuffer == InitBuffer /\ [][NextBuffer]_vars

\* The handles of the batches pushed into the buffer, in the order of the
\* pushes, without the first k of them.
BufferedFrom(k) == [i \in 1..(Len(store["buffer"]) - k) |-> Handle("buffer", k + i)]

\* A worker of the Producer's is inside tryPop on the buffer, under the lock.
WorkerTakes == \E w \in Workers("producer") : call[w].a = "buffer" /\ call[w].at = "locked"

\* C24: the buffer holds, in the order they were pushed, exactly the batches
\* that no worker has taken; a batch leaves it only in a tryPop of a running
\* worker, never by a step of the control thread; and while the Producer is
\* disabled and at rest every batch in the buffer stays where it is, batches
\* pushed meanwhile being added behind it.
C24_BufferKept ==
    /\ [](m_adapter["buffer"] = BufferedFrom(Removed("buffer")))
    /\ [][/\ Removed("buffer")' # Removed("buffer") => WorkerTakes
          /\ pc'[Main("producer")] \notin {pc[Main("producer")], "dead"}
                => m_adapter'["buffer"] = m_adapter["buffer"]
          /\ AtRest("producer") => IsPrefix(m_adapter["buffer"], m_adapter'["buffer"])]_vars

\* A worker has taken the first batch and was joined by DisableWorkerThread;
\* the second batch is in the buffer of the disabled Producer.
C24_Witness ==
    /\ AtRest("producer") /\ pc[Main("producer")] \in {"loop", "command"}
    /\ \E w \in Workers("producer") : pc[w] = "joined"
    /\ Removed("buffer") = 1 /\ m_adapter["buffer"] = <<Handle("buffer", 2)>>

\* ------------------------------------------- disable is seen promptly
\* Worker w is between two rounds of its loop: before the test of the flag.
BetweenRounds(w) == pc[w] \in {"top", "relock", "pred"}

\* C25: with the flag of its role clear, a worker that is between two rounds
\* starts no further round (no tryPop, hence no further callback and no further
\* batch): its next steps lead to the return from workerThreadWork; only the
\* round that was under way when the flag was cleared is finished. And it does
\* not wait for data: no worker blocks on m_workerThreadCondVar with the flag
\* clear, and none is left blocked there when the control thread joins.
C25_DisablePrompt ==
    /\ [][\A r \in Roles : \A w \in Workers(r) :
            /\ (~m_workerThreadEnabled[r] /\ BetweenRounds(w) /\ pc'[w] # pc[w])
                  => /\ pc'[w] \in {"pred", "finished", "dead"}
                     /\ call'[w] = NoCall
            /\ (pc[w] # "waiting" /\ pc'[w] = "waiting") => m_workerThreadEnabled[r]]_vars
    /\ [](\A r \in Roles : pc[Main(r)] = "join" => m_workerThreadCondVar[r] = {})

\* The cv Consumer's flag was cleared after 5 was given to the callback: the
\* worker has returned with 1 still in the shared adapter, and the control
\* thread is about to join it.
C25_Witness ==
    /\ variant = "cv" /\ ~m_workerThreadEnabled["consumer"]
    /\ pc[Main("consumer")] = "join"
    /\ \E w \in Workers("consumer") : pc[w] = "finished"
    /\ delivered = <<5>> /\ Len(m_adapter["shared"]) = 1

\* --------------------------------------- a callback that fails
\* C26: whatever the callback does with an element, the Consumer's worker goes
\* on to the next round of its loop, so that no worker of a Consumer whose flag
\* is set has left workerThreadWork.
C26_CallbackContained ==
    /\ [][\A w \in Workers("consumer") :
            (pc[w] = "work" /\ pc'[w] \notin {"work", "dead"}) => pc'[w] = "top"]_vars
    /\ [](m_workerThreadEnabled["consumer"]
            => \A w \in Workers("consumer") : pc[w] # "finished")

\* ------------------------------------- a worker thread that cannot start
\* std::make_unique<std::thread / std::jthread>(...) throws std::system_error:
\* no thread is made; the exception leaves the while loop of mainThreadWork
\* (the mt lock_guard is released on the way) and is caught by the handlers
\* after it, where mainThreadWork ends. m_workerThreadEnabled was set before.
SpawnFails(r) ==
    /\ pc[Main(r)] = "spawn"
    /\ pc' = [pc EXCEPT ![Main(r)] = "exited"]
    /\ m_workerThreadMutex' = [m_workerThreadMutex EXCEPT ![r] = @ \ {Main(r)}]
    /\ UNCHANGED <<adapterVars, threadVars, harnessVars, variant, roles, flagVars,
                   m_workerThreadCondVar, m_workerThread, executed, delivered, todo>>

NextSpawn == Next \/ \E r \in Roles : SpawnFails(r)

SpecSpawn == Init /\ [][NextSpawn]_vars

\* The control thread of r leaves the construction of the worker thread
\* without having made one.
SpawnFailed(r) ==
    /\ pc[Main(r)] = "spawn" /\ pc'[Main(r)] # "spawn"
    /\ Started(r)' = Started(r)

\* C27: when the worker thread cannot be made, the role is left disabled and
\* the control thread goes back to its loop for the next command.
C27_SpawnFailureRetry ==
    [][\A r \in Roles : SpawnFailed(r) =>
          ~m_workerThreadEnabled'[r] /\ pc'[Main(r)] = "loop"]_vars

\* ----------------------------------- a control thread that cannot start
\* runMainThread: std::make_unique<std::thread / std::jthread> throws, the
\* handlers of runMainThread swallow the exception and the constructor returns
\* with m_mainThread still null: the role exists, its control thread does not.
InitDegraded ==
    /\ variant \in {"cv", "mt"}
    /\ \E r \in Roles : roles = {r}
    /\ pc = [t \in Threads |-> IF t = Client THEN "run" ELSE "unborn"]
    /\ InitQueues(<<>>)
    /\ todo = <<AnyOp>>

\* shutdownMainThread: m_mainThread->joinable() on the null unique_ptr:
\* undefined behaviour. What a build makes of it: the process dies on the load
\* through the null pointer, or in std::terminate when join() throws out of the
\* destructor ("crash"); the load yields "not joinable" and the destructor
\* returns ("skip").
NullJoinMain(r) ==
    /\ pc[Client] = "join" /\ call[Client].at = "done" /\ call[Client].a = m_commandQueue(r)
    /\ pc[Main(r)] = "unborn"
    /\ \E outcome \in {"crash", "skip"} :
          IF outcome = "crash"
          THEN /\ pc' = [t \in Threads |-> "dead"]
               /\ call' = [t \in Threads |-> NoCall]
               /\ roles' = roles
          ELSE /\ pc' = [pc EXCEPT ![Client] = "run"]
               /\ call' = call
               /\ roles' = roles \ {r}
    /\ UNCHANGED <<adapterVars, value, ret, harnessVars, variant, flagVars, workerSync,
                   m_workerThread, executed, delivered, todo>>

NextDegraded ==
    \/ \E r \in Roles :
          \/ enableWorkerThread(r) \/ disableWorkerThread(r) \/ shutdownMainThread(r)
          \/ NullJoinMain(r)
    \/ ProducerPush
    \/ AdLock(Client) \/ AdBody(Client) \/ AdNotify(Client)

SpecDegraded == InitDegraded /\ [][NextDegraded]_vars

\* C28: without a control thread every command the owner gives stays in
\* m_commandQueue and none is executed, and the destructor of the role does not
\* bring the process down.
C28_DegradedUsable ==
    /\ \A r \in Roles :
          /\ executed[r] = <<>>
          /\ Len(m_adapter[m_commandQueue(r)]) = Len(store[m_commandQueue(r)])
    /\ pc[Client] # "dead"

\* ------------------------------------ several waiters and one pusher
\* Every user thread takes elements from the queue A with waitAndPop(Elem&),
\* again and again; the main thread calls pushAndNotify on A, MaxPush times at
\* most, whenever it likes.
MenuWaitRef == {Entry("waitAndPop", "A", "none", TRUE, {0})}

InitNotifyOne ==
    /\ menu = [t \in Threads |-> IF t \in Users THEN MenuWaitRef
                                 ELSE IF t = Client THEN MenuNotify ELSE {}]
    /\ kind = [a \in Adapters |-> "queue"]
    /\ comparator = "less"
    /\ plain = [a \in Adapters |-> NoPlain]
    /\ InitAdapters /\ NoRoles

NextNotifyOne ==
    \/ UserPush(Client) \/ UserReturn(Client)
    \/ \E t \in Users : UserPop(t) \/ UserReuse(t)
    \/ \E t \in Users \cup {Client} :
          AdLock(t) \/ AdBody(t) \/ AdNotify(t) \/ AdSpuriousWake(t)

\* A waiter goes on with its loop and inside its call, the pusher goes on
\* inside its call, and a thread blocked in lock() on a mutex that is free again
\* and again gets it in the end; a spurious wakeup may never come, and the
\* pusher need not push.
SpecNotifyOne ==
    /\ InitNotifyOne /\ [][NextNotifyOne]_vars
    /\ \A t \in Users : WF_vars(UserPop(t) \/ UserReuse(t) \/ AdBody(t)) /\ SF_vars(AdLock(t))
    /\ WF_vars(AdBody(Client) \/ AdNotify(Client)) /\ SF_vars(AdLock(Client))

\* The calls of waitAndPop that have returned.
Released ==
    LET n[S \in SUBSET Users] ==
            IF S = {} THEN 0
            ELSE LET t == CHOOSE u \in S : TRUE
                 IN n[S \ {t}] + popped[t] + (IF call[t].at = "done" THEN 1 ELSE 0)
    IN n[Users]

\* Thread t executes m_condVar.notify_one() in this step.
Notifies(t) == call[t].at = "notify" /\ call'[t].at = "done"

\* C29: each notify_one of pushAndNotify takes exactly one thread off the
\* condition variable when threads are blocked on it; at any time as many calls
\* of waitAndPop have returned as elements were taken out, never more than
\* were pushed, each with a pushed value; and again and again as many have
\* returned as there were calls of pushAndNotify: k calls release exactly k
\* waiters, and a waiter there is no element for is not released.
C29_NotifyOne ==
    /\ [][\A t \in Threads : Notifies(t) =>
            Cardinality(m_condVar["A"]) - Cardinality(m_condVar'["A"])
               = IF m_condVar["A"] = {} THEN 0 ELSE 1]_vars
    /\ [](/\ Released = Removed("A") /\ Released <= Len(store["A"])
          /\ \A t \in Users : call[t].at = "done" => value[t] \in PushValues)
    /\ []<>(Released = Len(store["A"]))

\* All user threads were blocked on the condition variable of the empty
\* adapter; pushAndNotify(5) has returned; one waiter has returned with 5 and
\* every other one is still blocked.
C29_Witness ==
    /\ call[Client].op = "pushAndNotify" /\ call[Client].at = "done"
    /\ Len(store["A"]) = 1 /\ m_adapter["A"] = <<>>
    /\ \E t \in Users :
          /\ call[t].at = "done" /\ value[t] = 5
          /\ m_condVar["A"] = Users \ {t}
          /\ \A u \in Users \ {t} : call[u].at = "waiting" /\ popped[u] = 0

\* ------------------------------------------ push without notification
\* One thread takes elements from A with waitAndPop, the other one calls push
\* and pushAndNotify on A as it likes, MaxPush times at most.
MenuPush == {Entry(op, "A", "none", FALSE, PushValues) : op \in PushOps}

InitPush ==
    /\ menu = [t \in Threads |-> IF t = Waiter THEN MenuWait
                                 ELSE IF t = Pusher THEN MenuPush ELSE {}]
    /\ \E k \in Kinds : kind = [a \in Adapters |-> k]
    /\ comparator \in (IF kind["A"] = "priority_queue" THEN {"less", "greater"} ELSE {"less"})
    /\ plain = [a \in Adapters |-> NoPlain]
    /\ InitAdapters /\ NoRoles

NextPush ==
    \E t \in Users : \/ UserPush(t) \/ UserPop(t) \/ UserReturn(t)
                     \/ AdLock(t) \/ AdBody(t) \/ AdNotify(t) \/ AdSpuriousWake(t)

SpecPush == InitPush /\ [][NextPush]_vars

\* Thread t's push(value) inserts under the lock in this step.
PushInserts(t) == call[t].op = "push" /\ call[t].at = "locked" /\ call'[t].at # "locked"

\* Thread w, blocked in the wait of waitAndPop, is woken in this step.
Woken(w) == call[w].at = "waiting" /\ call'[w].at # "waiting"

\* C30 as stated: a thread blocked in waitAndPop on an adapter that holds
\* elements leaves the wait only in the notify_one of a pushAndNotify.
C30_StaysSuspended ==
    [][\A w \in Threads :
          (Woken(w) /\ m_adapter[call[w].a] # <<>>)
             => \E t \in Threads : call[t].op = "pushAndNotify" /\ Notifies(t)]_vars

\* C30, amended: the step in which push(value) inserts makes the container one
\* longer, returns at once and leaves the condition variable and every other
\* thread alone; a thread blocked in waitAndPop is woken by the notify_one of a
\* pushAndNotify or by a spurious wakeup, never in a step of a call of push.
C30_PushSilent ==
    /\ [][\A t \in Threads : PushInserts(t) =>
            /\ Len(m_adapter'[call[t].a]) = Len(m_adapter[call[t].a]) + 1
            /\ call'[t].at = "done"
            /\ m_condVar' = m_condVar
            /\ \A u \in Threads \ {t} : call'[u] = call[u]]_vars
    /\ [][\A w \in Threads : Woken(w) =>
            \A t \in Threads \ {w} :
               call'[t] # call[t] => (call[t].op = "pushAndNotify" /\ Notifies(t))]_vars

\* The waiter is blocked on the condition variable of A although MaxPush
\* calls of push have put their elements into A and returned.
C30_Witness ==
    /\ call[Waiter].at = "waiting" /\ Waiter \in m_condVar["A"]
    /\ call[Pusher].op = "push" /\ call[Pusher].at = "done"
    /\ Len(m_adapter["A"]) = MaxPush

\* ----------------------------------- swap and assignment, crosswise
\* The two threads of the crosswise calls.
CrossThreads == {Waiter, Pusher}

\* Each of the two threads makes one call of swap, a = b or a = std::move(b) on the
\* queues A and B, in one order or the other, when it likes; B was made from a
\* queue holding SeedTwo.
MenuCross ==
    {Entry(op, "A", "B", FALSE, {0}) : op \in PairOps}
    \cup {Entry(op, "B", "A", FALSE, {0}) : op \in PairOps}

InitCross ==
    /\ menu = [t \in Threads |-> IF t \in CrossThreads THEN MenuCross ELSE {}]
    /\ kind = [a \in Adapters |-> "queue"]
    /\ comparator = "less"
    /\ plain = [a \in Adapters |-> IF a = "B" THEN Plain(SeedTwo, "less") ELSE NoPlain]
    /\ InitAdapters /\ NoRoles

NextCross ==
    \E t \in CrossThreads : UserPair(t) \/ AdLock(t) \/ AdTryLock(t) \/ AdBody(t)

\* A thread inside std::scoped_lock goes on (its try_lock, with the unlock that
\* follows a failed one, and the body under the locks), and a thread blocked in
\* lock() on a mutex that is free again and again gets it in the end.
SpecCross ==
    /\ InitCross /\ [][NextCross]_vars
    /\ \A t \in CrossThreads : WF_vars(AdTryLock(t) \/ AdBody(t)) /\ SF_vars(AdLock(t))

\* Thread t is inside a call, before its return.
InCall(t) == call[t].at \in {"lock", "try", "locked"}

\* C31: a thread inside swap or an assignment blocks on a mutex only while it
\* owns none, and owns both when it touches the containers; whenever threads
\* are inside such calls one of them can take a step (no deadlock); and each
\* call returns.
C31_JointLocking ==
    /\ [](\A t \in CrossThreads :
            /\ call[t].at = "lock" => Held(t) = {}
            /\ call[t].at = "locked" => Held(t) = {call[t].a, call[t].b})
    /\ []((\E t \in CrossThreads : InCall(t))
            => ENABLED (\E t \in CrossThreads : AdLock(t) \/ AdTryLock(t) \/ AdBody(t)))
    /\ \A t \in CrossThreads : []<>(~InCall(t))

\* One thread is under both locks in a call on (A, B); the other one, in a call
\* on (B, A), has found the second mutex taken, has given back the one it had
\* and now waits for the one that failed.
C31_Witness ==
    /\ call[Waiter].a = "A" /\ call[Waiter].b = "B" /\ call[Waiter].at = "locked"
    /\ call[Pusher].a = "B" /\ call[Pusher].b = "A" /\ call[Pusher].at = "lock"
    /\ call[Pusher].first = "b" /\ Held(Pusher) = {}

\* ------------------------------------ push from a second thread
SecondPushGuarded ==
    /\ "producer" \in roles /\ pc[LateCaller] # "dead"
    /\ Idle(LateCaller) /\ Len(store["buffer"]) < MaxBatches
    /\ m_workerThreadMutex["producer"] = {}
    /\ m_workerThreadMutex' = [m_workerThreadMutex EXCEPT !["producer"] = {LateCaller}]
    /\ call' = [call EXCEPT ![LateCaller] = NewCall("push", "buffer", "none", FALSE, Batch)]
    /\ UNCHANGED <<adapterVars, value, ret, harnessVars, variant, roles, flagVars,
                   m_workerThreadCondVar, m_workerThread, pc, executed, delivered, todo>>

\* Producer::push(items) called by a thread other than the owner, at any time
\* in the life of the Producer: m_vectorItemsQueue.push(std::move(items)).
SecondPush ==
    /\ "producer" \in roles /\ pc[LateCaller] # "dead"
    /\ Idle(LateCaller) /\ Len(store["buffer"]) < MaxBatches
    /\ call' = [call EXCEPT ![LateCaller] = NewCall("push", "buffer", "none", FALSE, Batch)]
    /\ UNCHANGED <<adapterVars, value, ret, harnessVars, roleVars>>

\* The owner enables, disables and destroys the Producer as it likes (the
\* destructor is not left); the second thread pushes.
InitPushAny ==
    /\ variant \in {"cv", "mt"}
    /\ Constructed({"producer"})
    /\ InitQueues(<<>>)
    /\ todo = <<AnyOp>>

NextPushAny ==
    \/ enableWorkerThread("producer") \/ disableWorkerThread("producer")
    \/ shutdownMainThread("producer")
    \/ SecondPush \/ UserReturn(LateCaller)
    \/ MainWaitAndPop("producer") \/ MainDispatch("producer")
    \/ CvEnable("producer") \/ MtEnable("producer") \/ MtEnableLocked("producer")
    \/ Spawn("producer") \/ Assign("producer")
    \/ CvDisable("producer") \/ CvNotify("producer") \/ MtInterrupt("producer")
    \/ Join("producer") \/ NullJoin("producer")
    \/ \E t \in Threads :
          \/ CvWorkerLock(t) \/ CvWorkerPred(t) \/ MtWorkerLoop(t)
          \/ WorkerEmpty(t) \/ WorkerGot(t) \/ CvWorkerSpurious(t)
          \/ ProducerForward(t)
          \/ AdLock(t) \/ AdBody(t) \/ AdNotify(t) \/ AdSpuriousWake(t)

SpecPushAny == InitPushAny /\ [][NextPushAny]_vars

Suspended(t) ==
    \/ call[t].at = "waiting"
    \/ t.kind = "worker" /\ pc[t] = "waiting"
    \/ /\ t.kind = "main" /\ pc[t] = "join"
       /\ Joinable(t.role, m_workerThread[t.role])
       /\ pc[Worker(t.role, m_workerThread[t.role])] # "finished"

\* Thread t owns no mutex, neither an adapter's nor a role's.
OwnsNothing(t) == Held(t) = {} /\ \A r \in Roles : t \notin m_workerThreadMutex[r]

\* C33: a thread that is suspended in a blocking wait owns no mutex.
C33_NoLockAcrossWait == \A t \in Threads : Suspended(t) => OwnsNothing(t)

\* ------------------------------------------------- no circular wait
\* The mutex of a role that thread t is about to lock (lock_guard /
\* unique_lock on m_workerThreadMutex), if any.
WantsWorkerMutex(t) ==
    \/ t.kind = "worker" /\ variant = "cv" /\ pc[t] \in {"top", "relock"}
    \/ t.kind = "main" /\ pc[t] \in {"disable", "enable_lock"}
    \/ t.kind = "main" /\ variant = "cv" /\ pc[t] = "enable"

\* The threads that thread t cannot go on without: the owners of the mutex it
\* is blocked on, and the worker it is joining.
WaitsOn(t) ==
    (IF call[t].at = "lock" THEN m_mutex[FirstMutex(call[t])] ELSE {})
    \cup (IF WantsWorkerMutex(t) THEN m_workerThreadMutex[t.role] ELSE {})
    \cup (IF t.kind = "main" /\ pc[t] = "join" /\ Joinable(t.role, m_workerThread[t.role])
             /\ pc[Worker(t.role, m_workerThread[t.role])] # "finished"
          THEN {Worker(t.role, m_workerThread[t.role])} ELSE {})

\* The threads two and three steps along the waits.
WaitsOnTwo(t) == UNION {WaitsOn(u) : u \in WaitsOn(t)}

WaitsOnThree(t) == UNION {WaitsOn(u) : u \in WaitsOnTwo(t)}

\* C34: with a Producer and a Consumer on one shared adapter and their owner
\* enabling, pushing and disabling, no thread waits for itself, directly or
\* through others, and no chain of waits is longer than two (a thread waiting
\* for a worker mutex, whose owner waits for an adapter mutex, whose owner
\* waits for nothing): there is no circular wait. A thread that locks a worker
\* mutex owns no adapter mutex, and a thread that owns an adapter mutex locks
\* nothing more.
C34_NoCircularWait ==
    /\ [](\A t \in Threads :
            /\ t \notin WaitsOn(t) \cup WaitsOnTwo(t)
            /\ WaitsOnThree(t) = {}
            /\ Held(t) # {} => WaitsOn(t) = {})
    /\ [][\A r \in Roles : \A t \in m_workerThreadMutex'[r] \ m_workerThreadMutex[r] :
            Held(t) = {}]_vars

\* The cv Producer's worker owns its worker mutex and is blocked on the mutex
\* of the shared adapter, which the Consumer's worker owns, inside tryPop,
\* together with its own worker mutex.
C34_Witness ==
    /\ variant = "cv"
    /\ \E p \in Workers("producer") : \E c \in Workers("consumer") :
          /\ m_workerThreadMutex["producer"] = {p} /\ m_workerThreadMutex["consumer"] = {c}
          /\ call[p].a = "shared" /\ call[p].at = "lock"
          /\ call[c].a = "shared" /\ call[c].at = "locked"
          /\ WaitsOn(p) = {c}

\* ------------------------------------------- a batch is forwarded whole
\* The items of n batches, one batch after the other.
RECURSIVE Batches(_)
Batches(n) == IF n = 0 THEN <<>> ELSE Batch \o Batches(n - 1)

\* The item worker w is pushing into the shared adapter and has not inserted.
InFlight(w) ==
    IF call[w].a = "shared" /\ call[w].at \in {"lock", "locked"} THEN <<call[w].arg>> ELSE <<>>

\* What the shared adapter was given, with what worker w is still to give it.
Forwarded(w) == store["shared"] \o InFlight(w) \o (IF Holding(w) THEN value[w] ELSE <<>>)

\* C35: what the Producer's workers have put into the shared adapter (behind
\* what it was made from), followed by what a worker that has taken a batch is
\* still to put there, is at any time the items of the batches taken out of the
\* buffer, in their order; and a worker that leaves its loop is not in the
\* middle of a batch, whatever command the control thread has executed
\* meanwhile.
C35_BatchWhole ==
    /\ [](LET busy == {w \in Workers("producer") : Holding(w) \/ InFlight(w) # <<>>}
              whole == plain["shared"].pushed \o Batches(Removed("buffer"))
          IN IF busy = {} THEN store["shared"] = whole
             ELSE \A w \in busy : Forwarded(w) = whole)
    /\ [][\A w \in Workers("producer") :
            WorkerExits(w) => ~Holding(w) /\ InFlight(w) = <<>>]_vars

\* The control thread of the mt Producer has cleared the flag and is joining
\* the worker, which has pushed 5 into the shared adapter and still has 1 of
\* the same batch to push.
C35_Witness ==
    /\ variant = "mt" /\ ~m_workerThreadEnabled["producer"] /\ pc[Main("producer")] = "join"
    /\ store["shared"] = <<5>>
    /\ \E w \in Workers("producer") : pc[w] = "work" /\ value[w] = <<1>> /\ Ready(w)

\* --------------------------------------- m_isWorkerThreadRunning is not stale
\* C36: in namespace concurrency m_isWorkerThreadRunning is true only while a
\* worker thread of the object is live: once the worker has finished, by the
\* break of a disable or by an exception that left the work loop, it is false.
C36_RunningFlagFresh ==
    \A r \in Roles :
        (variant = "cv" /\ m_isWorkerThreadRunning[r]) => Live(r) # {}

\* ------------------------------------------------- a copy and its source
\* Adapters of std::vector<int>, the element type of the Producer's own
\* m_vectorItemsQueue: B was made from a container holding these two vectors.
SeedCopy == <<Batch, <<3>>>>

\* The thread that assigns B to A and pops from A, and the thread that pops
\* from B.
CopyOwner == Thr("user", "none", 1)

SourceOwner == Thr("user", "none", 2)

MenuCopy ==
    {Entry("copyAssign", "A", "B", FALSE, {0}),
     Entry("tryPop", "A", "none", TRUE, {0}),
     Entry("pop", "A", "none", FALSE, {0})}

MenuSource ==
    {Entry(op, "B", "none", TRUE, {0}) : op \in PopOps}
    \cup {Entry("tryPop", "B", "none", FALSE, {0})}

InitCopy ==
    /\ menu = [t \in Threads |-> IF t = CopyOwner THEN MenuCopy
                                  ELSE IF t = SourceOwner THEN MenuSource ELSE {}]
    /\ \E k \in {"queue", "stack"} : kind = [a \in Adapters |-> k]
    /\ comparator = "less"
    /\ plain = [a \in Adapters |-> IF a = "B" THEN Plain(SeedCopy, "less") ELSE NoPlain]
    /\ InitAdapters /\ NoRoles

\* The tail of a pop for an Elem with a non-throwing move (std::vector<int>):
\* value = std::move_if_noexcept(*getCurrent(m_adapter)) move-assigns, which
\* leaves the vector the handle points to empty; the shared_ptr form moves the
\* handle and leaves the vector alone.
TakeCurrentVector(t) ==
    LET c == call[t]
        cur == getCurrent(kind[c.a], m_adapter[c.a])
    IN /\ m_adapter' = [m_adapter EXCEPT ![c.a] = ContPop(kind[c.a], store, comparator, @)]
       /\ m_mutex' = [m_mutex EXCEPT ![c.a] = @ \ {t}]
       /\ call' = [call EXCEPT ![t].at = "done"]
       /\ IF c.byRef
          THEN /\ value' = [value EXCEPT ![t] = Payload(cur)]
               /\ store' = [store EXCEPT ![cur.o][cur.i] = <<>>]
               /\ ret' = [ret EXCEPT ![t] = [kind |-> IF c.op = "tryPop" THEN "true" ELSE "void",
                                             h |-> NoHandle]]
          ELSE /\ value' = value
               /\ store' = store
               /\ ret' = [ret EXCEPT ![t] = [kind |-> "ptr", h |-> cur]]
       /\ UNCHANGED <<kind, comparator, m_condVar, callerVars>>

AdBodyVector(t) ==
    /\ call[t].at = "locked"
    /\ IF call[t].op \in PopOps /\ m_adapter[call[t].a] # <<>>
       THEN TakeCurrentVector(t)
       ELSE AdBody(t)

NextCopy ==
    \E t \in Users :
        \/ UserPair(t) \/ UserPop(t) \/ UserReturn(t)
        \/ AdLock(t) \/ AdTryLock(t) \/ AdBodyVector(t) \/ AdSpuriousWake(t)

SpecCopy == InitCopy /\ [][NextCopy]_vars

\* The vector handle h pointed to when its adapter was made.
Original(h) == FactoryStore(kind[h.o], plain[h.o])[h.i]

\* C37: A, assigned from B, keeps the values B held at the time of the copy
\* whatever is popped from B afterwards: every element in A has the value it
\* was copied with, and every pop from A returns that value.
C37_CopyIndependent ==
    /\ [](\A i \in 1..Len(m_adapter["A"]) :
            Payload(m_adapter["A"][i]) = Original(m_adapter["A"][i]))
    /\ [][\A t \in Users :
            (/\ call[t].op \in PopOps /\ call[t].a = "A"
             /\ call[t].at = "locked" /\ call'[t].at = "done"
             /\ m_adapter["A"] # <<>>)
            => LET cur == getCurrent(kind["A"], m_adapter["A"])
               IN IF call[t].byRef THEN value'[t] = Original(cur)
                  ELSE store'[ret'[t].h.o][ret'[t].h.i] = Original(cur)]_vars

\* ----------------------------------- a waiter and swap or an assignment
\* The Waiter calls waitAndPop on the queue A, made empty; the Pusher calls
\* swap, a = b, a = std::move(b) on A and B, or pushAndNotify on A; B was made
\* from a queue holding SeedTwo.
MenuRefill ==
    {Entry(op, "A", "B", FALSE, {0}) : op \in PairOps}
    \cup {Entry("swap", "B", "A", FALSE, {0}), Entry("pushAndNotify", "A", "none", FALSE, {1})}

InitRefill ==
    /\ menu = [t \in Threads |-> IF t = Waiter THEN MenuWait
                                  ELSE IF t = Pusher THEN MenuRefill ELSE {}]
    /\ kind = [a \in Adapters |-> "queue"]
    /\ comparator = "less"
    /\ plain = [a \in Adapters |-> IF a = "B" THEN Plain(SeedTwo, "less") ELSE NoPlain]
    /\ InitAdapters /\ NoRoles

NextRefill ==
    \E t \in {Waiter, Pusher} :
        \/ UserPop(t) \/ UserPair(t) \/ UserPush(t) \/ UserReturn(t)
        \/ AdLock(t) \/ AdTryLock(t) \/ AdBody(t) \/ AdNotify(t) \/ AdSpuriousWake(t)

SpecRefill == InitRefill /\ [][NextRefill]_vars

\* Thread w is blocked in m_condVar.wait of A, A has an element, and no call
\* that would notify is under way.
Stranded(w) ==
    /\ call[w].at = "waiting" /\ w \in m_condVar["A"]
    /\ m_adapter["A"] # <<>>
    /\ \A t \in Threads \ {w} : call[t].at \in {"idle", "done"}

\* C38: a thread suspended in waitAndPop on A is woken whenever A becomes
\* non-empty, by pushAndNotify, swap or an assignment: the call that has made A
\* non-empty does not return with the thread still blocked.
C38_RefillWakes == \A w \in Threads : ~Stranded(w)

====
